---- MODULE Spec2Model ----
(***************************************************************************)
(* LectureEnvironmentManager (src/src/services/lectureEnvironmentManager.ts)*)
(* as a state machine: one manager instance, the lecture directory it      *)
(* works on, the external processes it starts, and the calls in flight.    *)
(* A step of a call is the code between two awaits that wait for I/O or a  *)
(* timer; awaits of already-settled promises and execSync do not yield.    *)
(***************************************************************************)
EXTENDS Integers, Sequences, FiniteSets, TLC

\* ------------------------------------------------------------------ bounds
MaxPids == 2        \* processes one behaviour may spawn
MaxCalls == 2       \* calls in flight at once (concurrent specification)
MaxChecks == 2      \* readiness ticks before the timeout (timeout / 500)
MaxOutput == 1      \* chunks a dev server writes to its output
MaxEntries == 2     \* dependency entries of a pre-existing manifest
MaxTicks == 3       \* half seconds the clock advances

\* -------------------------------------------------------------- JS values
Undefined == "undefined"
NoVersion == <<"undefined">>
EmptyString == <<>>
NoPid == 0
NoPort == -1

\* JS truthiness of an optional string and of an optional number
Truthy(s) == s # Undefined /\ s # ""
TruthyVer(v) == v # NoVersion /\ v # EmptyString
TruthyNum(n) == n # NoPort /\ n # 0
OrVer(a, b) == IF TruthyVer(a) THEN a ELSE b

\* String.prototype.replace(ch, ""): drops the first occurrence of ch
RECURSIVE Replace(_, _)
Replace(s, ch) ==
    IF s = <<>> THEN <<>>
    ELSE IF Head(s) = ch THEN Tail(s)
    ELSE <<Head(s)>> \o Replace(Tail(s), ch)

\* ------------------------------------------------------------ environment
NOT_INITIALIZED == "not_initialized"
INITIALIZING == "initializing"
READY == "ready"
ERROR == "error"
INSTALLING == "installing"
EnvironmentStatus == {NOT_INITIALIZED, INITIALIZING, READY, ERROR, INSTALLING}

LectureId == "L"
LecturePath == "/course/L"
DistPath == LecturePath \o "/dist"

\* --------------------------------------------------------------- manifest
Core == "@slidev/core"
Client == "@slidev/client"
ThemeDefault == "@slidev/theme-default"
Foo == "foo"
Packages == {Core, Client, ThemeDefault, Foo}
DefaultVersion == <<"^", "0.49.0">>
Versions == {EmptyString, DefaultVersion, <<"~", "0.48.0">>}

EmptyObject == [p \in {} |-> EmptyString]
Get(obj, k) == IF k \in DOMAIN obj THEN obj[k] ELSE NoVersion
Put(obj, k, v) == [p \in DOMAIN obj \cup {k} |-> IF p = k THEN v ELSE obj[p]]
Delete(obj, k) == [p \in DOMAIN obj \ {k} |-> obj[p]]

\* what is at packageJsonPath: nothing, text that JSON.parse rejects, or an object
NoFile == [kind |-> "none", dependencies |-> EmptyObject, devDependencies |-> EmptyObject]
Garbage == [kind |-> "garbage", dependencies |-> EmptyObject, devDependencies |-> EmptyObject]
Json(deps, dev) == [kind |-> "json", dependencies |-> deps, devDependencies |-> dev]

Sections == UNION {[S -> Versions] : S \in SUBSET Packages}
Manifests ==
    {Json(d, v) : d \in Sections, v \in Sections}

Size(m) == Cardinality(DOMAIN m.dependencies) + Cardinality(DOMAIN m.devDependencies)

ExistingVersion(packageJson) ==
    LET v == OrVer(Get(packageJson.dependencies, Core), Get(packageJson.devDependencies, Core))
    IN IF TruthyVer(v) THEN v ELSE NoVersion

\* faulty variant: the version of the existing manifest wins over the configured one
ChooseVersionExistingFirst(configured, existingVersion) ==
    OrVer(OrVer(existingVersion, configured), DefaultVersion)

ChooseVersion(configured, existingVersion) ==
    OrVer(OrVer(configured, existingVersion), DefaultVersion)

StripVersion(slidevVersion) == Replace(Replace(slidevVersion, "^"), "~")

\* faulty variant: the existing entries are not carried over
DropDependencies(section) == EmptyObject

CopyDependencies(section) == section

InjectCore(devDependencies, slidevVersion) == Put(devDependencies, Core, slidevVersion)

InjectClient(dependencies, slidevVersion) == Put(dependencies, Client, slidevVersion)

RemoveTheme(devDependencies) == Delete(devDependencies, ThemeDefault)

BuildPackageJson(existing, slidevVersion) ==
    Json(InjectClient(CopyDependencies(existing.dependencies), slidevVersion),
         RemoveTheme(InjectCore(CopyDependencies(existing.devDependencies), slidevVersion)))

\* the object ensurePackageJson goes on with after trying to read the file
ParsedPackageJson(file) == IF file.kind = "json" THEN file ELSE Json(EmptyObject, EmptyObject)

\* ------------------------------------------------------------------ state
VARIABLES
    config,            \* LectureEnvironmentConfig: the configured slidevVersion
    environment,       \* EnvironmentInfo: status, error, slidevVersion
    activeProcesses,   \* Map<string, ActiveProcess>
    fs,                \* the lecture directory on disk
    procs,             \* the child processes, by pid
    calls,             \* the calls in flight: operation, position, locals
    ret,               \* the value returned by the step just taken, if it completed a call
    platform,          \* process.platform
    concurrent,        \* whether a call may be issued while another awaits
    now                \* Date.now(), in milliseconds since the manager was constructed

vars == <<config, environment, activeProcesses, fs, procs, calls, ret, platform, concurrent, now>>

Pids == 1..MaxPids
Slots == 1..MaxCalls
NullCode == -1

DevKey == LectureId \o "-dev"

\* faulty variant: once the status is Error it stays Error
UpdateStatusErrorIsTerminal(env, status, error) ==
    IF env.status = ERROR THEN env
    ELSE [env EXCEPT !.status = status,
                     !.error = IF Truthy(error) THEN error ELSE @]

\* faulty variant: the first error recorded is kept
UpdateStatusKeepsFirstError(env, status, error) ==
    [env EXCEPT !.status = status,
                !.error = IF Truthy(error) /\ ~Truthy(@) THEN error ELSE @]

\* updateStatus: the error is stored only when one is passed
UpdateStatus(env, status, error) ==
    [env EXCEPT !.status = status,
                !.error = IF Truthy(error) THEN error ELSE @]

\* ---------------------------------------------------------------- results
EmptyResult ==
    [success |-> FALSE, messages |-> <<>>, errors |-> <<>>, url |-> Undefined,
     processId |-> NoPid, outputPath |-> Undefined, installedPackages |-> <<>>]

Msg(r, m) == [r EXCEPT !.messages = Append(@, m)]
Err(r, e) == [r EXCEPT !.errors = Append(@, e)]
Succeed(r) == [r EXCEPT !.success = TRUE]

RECURSIVE Join(_)
Join(seq) ==
    IF seq = <<>> THEN ""
    ELSE IF Len(seq) = 1 THEN seq[1]
    ELSE seq[1] \o ", " \o Join(Tail(seq))

\* ------------------------------------------------------------------ calls
NoConfig == [port |-> NoPort, host |-> Undefined]

Builds == {"buildLecture", "buildLectureWithOutput"}

\* what a call finds when it is issued; lastBuild, lastOutputPath: the
\* successful build that returned just before it, if one did
Snapshot ==
    [status |-> environment.status, error |-> environment.error,
     pkg |-> fs.pkg, dist |-> fs.dist, activeProcesses |-> activeProcesses,
     lastBuild |-> IF ret.op \in Builds /\ ret.result.success THEN ret.op ELSE "none",
     lastOutputPath |-> IF ret.op \in Builds /\ ret.result.success
                        THEN ret.result.outputPath ELSE Undefined,
     spawned |-> {p \in Pids : procs[p].state # "unused"}]

IdleCall ==
    [op |-> "none", pc |-> "idle", result |-> EmptyResult, inst |-> EmptyResult,
     cfg |-> NoConfig, pid |-> NoPid, checkCount |-> 0, probes |-> 0,
     toWrite |-> NoFile, version |-> NoVersion, ensureErrors |-> <<>>,
     ranInstall |-> FALSE, ranBuild |-> FALSE,
     pre |-> [status |-> NOT_INITIALIZED, error |-> Undefined, pkg |-> NoFile, dist |-> "absent",
              lastBuild |-> "none", lastOutputPath |-> Undefined,
              activeProcesses |-> [k \in {} |-> NoPid], spawned |-> {}]]

NewCall(op, cfg) == [IdleCall EXCEPT !.op = op, !.cfg = cfg, !.pre = Snapshot]

NoReturn ==
    [op |-> "none", result |-> EmptyResult, value |-> FALSE,
     cfg |-> NoConfig, ranInstall |-> FALSE, ranBuild |-> FALSE,
     launched |-> FALSE, pre |-> IdleCall.pre]

Idle(i) == calls[i].op = "none"
AllIdle == \A i \in Slots : Idle(i)

\* runPackageManager runs the package manager with execSync and no timeout
\* (lines 799-804): while the tool does not exit the thread is inside execSync,
\* and no handler, timer or continuation of this Node process runs
Blocked == \E j \in Slots : calls[j].pc = "inst_hung"

\* a call is issued into the lowest free slot; one at a time unless concurrent
CanBegin(i) ==
    /\ ~Blocked
    /\ Idle(i)
    /\ \A j \in Slots : j < i => ~Idle(j)
    /\ concurrent \/ AllIdle

\* the call in slot i returns result r (value v for the boolean operations);
\* launched: what the readiness wait of a startDevServer call resolved with
Returned(c, r, v) ==
    [op |-> c.op, result |-> r, value |-> v, cfg |-> c.cfg,
     ranInstall |-> c.ranInstall, ranBuild |-> c.ranBuild,
     launched |-> FALSE, pre |-> c.pre]

\* -------------------------------------------------------------- processes
EmptyMap == [k \in {} |-> NoPid]

NoProc ==
    [state |-> "unused", exitCode |-> NullCode, signalCode |-> FALSE, killed |-> FALSE,
     termAttempted |-> FALSE, signalled |-> FALSE, listening |-> FALSE,
     port |-> NoPort, host |-> Undefined, type |-> "none", uncaught |-> FALSE,
     handedOut |-> FALSE, result |-> EmptyResult, chunks |-> 0, closed |-> FALSE,
     polling |-> FALSE]

\* the stdout/stderr handlers of a dev server close over the result object of
\* the call that spawned it; once the call has returned, the caller holds it
HandOut(ps, p, r) ==
    IF p = NoPid THEN ps ELSE [ps EXCEPT ![p].handedOut = TRUE, ![p].result = r]

\* the exit code of a child that could not be launched (spawn ENOENT)
SpawnErrorCode == -2

Unused == {p \in Pids : procs[p].state = "unused"}
Spawned == {p \in Pids : procs[p].state # "unused"}
NextPid == CHOOSE p \in Unused : \A q \in Unused : p <= q

\* ------------------------------------------------------------------- Init
\* the manifests a lecture directory may hold before the manager first runs
SmallManifests ==
    {NoFile, Garbage,
     Json([p \in {Foo} |-> <<"1.0.0">>], [p \in {Core} |-> <<"~", "0.48.0">>])}

InitialFs ==
    {[dir |-> d, slides |-> s, pkg |-> m, nodeModules |-> n, dist |-> "absent",
      writable |-> w] :
        d \in BOOLEAN, s \in BOOLEAN, m \in SmallManifests, n \in BOOLEAN, w \in BOOLEAN}

\* files exist only inside an existing lecture directory; a directory that
\* cannot be written (permissions, a full disk) holds no node_modules here
WellFormedFs(f) ==
    /\ f.dir \/ (~f.slides /\ f.pkg = NoFile /\ ~f.nodeModules /\ f.writable)
    /\ f.writable \/ (f.slides /\ ~f.nodeModules)

\* constructor and createEmptyEnvironment
InitManager ==
    /\ environment = [status |-> NOT_INITIALIZED, error |-> Undefined,
                      slidevVersion |-> NoVersion]
    /\ activeProcesses = EmptyMap
    /\ procs = [p \in Pids |-> NoProc]
    /\ calls = [i \in Slots |-> IdleCall]
    /\ ret = NoReturn

\* the lecture directories a manager is constructed on
LectureDirs == {f \in InitialFs : WellFormedFs(f)}

InitEnv ==
    /\ InitManager
    /\ config = [slidevVersion |-> NoVersion]
    /\ fs \in LectureDirs
    /\ platform = "linux"

\* ------------------------------------------------------------- initialize
\* initialize(), lines 63-72: the code up to the first await
EnterInitialize(c) ==
    [c EXCEPT !.pc = "init_dir",
              !.result = Msg(EmptyResult, "Initializing environment for lecture")]

\* faulty variant: the catch block reports the error and forgets the status
FailInitializeKeepsStatus(i, message) ==
    /\ environment' = environment
    /\ ret' = Returned(calls[i], Err(calls[i].result, message), FALSE)
    /\ calls' = [calls EXCEPT ![i] = IdleCall]
    /\ UNCHANGED <<config, activeProcesses, fs, procs, platform, concurrent, now>>

\* the catch block of initialize(): status ERROR, the message in result.errors
FailInitialize(i, message) ==
    /\ environment' = UpdateStatus(environment, ERROR, message)
    /\ ret' = Returned(calls[i], Err(calls[i].result, message), FALSE)
    /\ calls' = [calls EXCEPT ![i] = IdleCall]
    /\ UNCHANGED <<config, activeProcesses, fs, procs, platform, concurrent, now>>

Initialize(i) ==
    /\ CanBegin(i)
    /\ calls' = [calls EXCEPT ![i] = EnterInitialize(NewCall("initialize", NoConfig))]
    /\ environment' = UpdateStatus(environment, INITIALIZING, Undefined)
    /\ UNCHANGED <<config, activeProcesses, fs, procs, platform, concurrent, now>>
    /\ ret' = NoReturn

Setup(i) ==
    /\ CanBegin(i)
    /\ calls' = [calls EXCEPT ![i] = EnterInitialize(NewCall("setup", NoConfig))]
    /\ environment' = UpdateStatus(environment, INITIALIZING, Undefined)
    /\ UNCHANGED <<config, activeProcesses, fs, procs, platform, concurrent, now>>
    /\ ret' = NoReturn

\* await fs.pathExists(lecturePath)
InitCheckDirectory(i) ==
    /\ calls[i].pc = "init_dir"
    /\ ~Blocked
    /\ IF ~fs.dir
       THEN FailInitialize(i, "Lecture directory does not exist: " \o LecturePath)
       ELSE /\ calls' = [calls EXCEPT ![i].pc = "init_slides"]
            /\ UNCHANGED <<config, environment, activeProcesses, fs, procs, platform, concurrent, now>>
            /\ ret' = NoReturn

\* await fs.pathExists(slidesMdPath)
InitCheckSlides(i) ==
    /\ calls[i].pc = "init_slides"
    /\ ~Blocked
    /\ IF ~fs.slides
       THEN FailInitialize(i, "slides.md not found in lecture directory: "
                                 \o LecturePath \o "/slides.md")
       ELSE /\ calls' = [calls EXCEPT ![i].pc = "init_pkg"]
            /\ UNCHANGED <<config, environment, activeProcesses, fs, procs, platform, concurrent, now>>
            /\ ret' = NoReturn

\* ensurePackageJson up to writeJson: read, parse, pick the version, build
EnsureMessages(file) ==
    IF file.kind # "json" THEN <<>>
    ELSE <<"Found existing package.json">> \o
         (IF TruthyVer(ExistingVersion(file)) THEN <<"Existing slidev version">> ELSE <<>>)

\* lines 144-148: an unparsable package.json is reported and replaced
EnsureErrors(file) ==
    IF file.kind = "garbage" THEN <<"Failed to parse existing package.json">> ELSE <<>>

\* faulty variant: the version remembered from the previous run, which has
\* lost its range prefix, is preferred to the one in the manifest
InitReadRemembersVersion(i) ==
    /\ calls[i].pc = "init_pkg"
    /\ ~Blocked
    /\ LET packageJson == ParsedPackageJson(fs.pkg)
           slidevVersion == ChooseVersion(OrVer(config.slidevVersion, environment.slidevVersion),
                                          ExistingVersion(packageJson))
       IN calls' = [calls EXCEPT
               ![i].pc = "init_write",
               ![i].version = StripVersion(slidevVersion),
               ![i].toWrite = BuildPackageJson(packageJson, slidevVersion),
               ![i].ensureErrors = EnsureErrors(fs.pkg),
               ![i].result.messages = @ \o EnsureMessages(fs.pkg)]
    /\ UNCHANGED <<config, environment, activeProcesses, fs, procs, platform, concurrent, now>>
    /\ ret' = NoReturn

InitReadPackageJson(i) ==
    /\ calls[i].pc = "init_pkg"
    /\ ~Blocked
    /\ LET packageJson == ParsedPackageJson(fs.pkg)
           slidevVersion == ChooseVersion(config.slidevVersion, ExistingVersion(packageJson))
       IN calls' = [calls EXCEPT
               ![i].pc = "init_write",
               ![i].version = StripVersion(slidevVersion),
               ![i].toWrite = BuildPackageJson(packageJson, slidevVersion),
               ![i].ensureErrors = EnsureErrors(fs.pkg),
               ![i].result.messages = @ \o EnsureMessages(fs.pkg)]
    /\ UNCHANGED <<config, environment, activeProcesses, fs, procs, platform, concurrent, now>>
    /\ ret' = NoReturn

\* installDependencies(), lines 215-224: the code up to the first await
EnterInstall(c) ==
    [c EXCEPT !.pc = "inst_check",
              !.inst = Msg(EmptyResult, "Installing dependencies...")]

\* the error of a fs.writeJson that throws
WriteFailed == "EACCES: permission denied, open '" \o LecturePath \o "/package.json'"

\* faulty variant: an error reported while reading package.json aborts initialize()
InitWriteAbortsOnParseError(i) ==
    /\ calls[i].pc = "init_write"
    /\ ~Blocked
    /\ IF ~fs.writable \/ calls[i].ensureErrors # <<>>
       THEN FailInitialize(i, "Failed to create package.json: "
                                 \o Join(Append(calls[i].ensureErrors,
                                                 "Failed to create package.json: " \o WriteFailed)))
       ELSE /\ fs' = [fs EXCEPT !.pkg = calls[i].toWrite]
            /\ LET ready == UpdateStatus([environment EXCEPT !.slidevVersion = calls[i].version],
                                         READY, Undefined)
                   result == Msg(Succeed(Msg(calls[i].result, "Created/updated package.json")),
                                 "Environment initialized successfully")
               IN IF calls[i].op = "setup"
                  THEN /\ environment' = UpdateStatus(ready, INSTALLING, Undefined)
                       /\ calls' = [calls EXCEPT ![i] = EnterInstall([calls[i] EXCEPT !.result = result])]
                       /\ ret' = NoReturn
                  ELSE /\ environment' = ready
                       /\ ret' = Returned(calls[i], result, TRUE)
                       /\ calls' = [calls EXCEPT ![i] = IdleCall]
            /\ UNCHANGED <<config, activeProcesses, procs, platform, concurrent, now>>

\* await fs.writeJson(...), then the rest of initialize(); setup() goes on to
\* install. When writeJson throws (lines 165-168) ensurePackageJson returns
\* success = false and initialize() throws on it (lines 87-89).
InitWritePackageJson(i) ==
    /\ calls[i].pc = "init_write"
    /\ ~Blocked
    /\ IF ~fs.writable
       THEN FailInitialize(i, "Failed to create package.json: "
                                 \o Join(Append(calls[i].ensureErrors,
                                                 "Failed to create package.json: " \o WriteFailed)))
       ELSE /\ fs' = [fs EXCEPT !.pkg = calls[i].toWrite]
            /\ LET ready == UpdateStatus([environment EXCEPT !.slidevVersion = calls[i].version],
                                         READY, Undefined)
                   result == Msg(Succeed(Msg(calls[i].result, "Created/updated package.json")),
                                 "Environment initialized successfully")
               IN IF calls[i].op = "setup"
                  THEN /\ environment' = UpdateStatus(ready, INSTALLING, Undefined)
                       /\ calls' = [calls EXCEPT ![i] = EnterInstall([calls[i] EXCEPT !.result = result])]
                       /\ ret' = NoReturn
                  ELSE /\ environment' = ready
                       /\ ret' = Returned(calls[i], result, TRUE)
                       /\ calls' = [calls EXCEPT ![i] = IdleCall]
            /\ UNCHANGED <<config, activeProcesses, procs, platform, concurrent, now>>

\* ---------------------------------------------------------- stopDevServer
MapSet(map, key, value) == [k \in DOMAIN map \cup {key} |-> IF k = key THEN value ELSE map[k]]
MapDelete(map, key) == [k \in DOMAIN map \ {key} |-> map[k]]
MapHas(map, key) == key \in DOMAIN map

\* lines 516-534: taskkill on win32; SIGTERM elsewhere, SIGKILL if that throws.
\* threw1, threw2: whether the first and the fallback termination call throw.
\* kill() delivers a signal only to a process that has not exited, and then
\* sets the handle's killed flag; taskkill leaves the flag alone.
Terminate(ps, p, threw1, threw2) ==
    IF ps[p].killed THEN ps
    ELSE IF platform = "win32"
    THEN [ps EXCEPT ![p].termAttempted = TRUE,
                    ![p].signalled = @ \/ (~threw1 /\ ps[p].state = "running")]
    ELSE LET delivered == (~threw1 \/ ~threw2) /\ ps[p].state = "running"
         IN [ps EXCEPT ![p].termAttempted = TRUE,
                       ![p].signalled = @ \/ delivered,
                       ![p].killed = delivered]

\* faulty variant: the entry stays when both termination calls throw
StopDevServerKeepsOnThrow(ap, ps, threw1, threw2) ==
    IF MapHas(ap, DevKey)
    THEN [ap |-> IF threw1 /\ threw2 THEN ap ELSE MapDelete(ap, DevKey),
          ps |-> Terminate(ps, ap[DevKey].process, threw1, threw2),
          value |-> TRUE]
    ELSE [ap |-> ap, ps |-> ps, value |-> FALSE]

\* stopDevServer() on the registry ap and the processes ps
StopDevServerOn(ap, ps, threw1, threw2) ==
    IF MapHas(ap, DevKey)
    THEN [ap |-> MapDelete(ap, DevKey),
          ps |-> Terminate(ps, ap[DevKey].process, threw1, threw2),
          value |-> TRUE]
    ELSE [ap |-> ap, ps |-> ps, value |-> FALSE]

StopDevServer(i) ==
    /\ CanBegin(i)
    /\ \E threw1, threw2 \in BOOLEAN :
         LET stopped == StopDevServerOn(activeProcesses, procs, threw1, threw2)
         IN /\ activeProcesses' = stopped.ap
            /\ procs' = stopped.ps
            /\ ret' = Returned(NewCall("stopDevServer", NoConfig), EmptyResult, stopped.value)
    /\ UNCHANGED <<config, environment, fs, calls, platform, concurrent, now>>

\* stopAllProcesses(): awaits stopDevServer() and returns nothing
StopAllProcesses(i) ==
    /\ CanBegin(i)
    /\ \E threw1, threw2 \in BOOLEAN :
         LET stopped == StopDevServerOn(activeProcesses, procs, threw1, threw2)
         IN /\ activeProcesses' = stopped.ap
            /\ procs' = stopped.ps
            /\ ret' = Returned(NewCall("stopAllProcesses", NoConfig), EmptyResult, FALSE)
    /\ UNCHANGED <<config, environment, fs, calls, platform, concurrent, now>>

\* ---------------------------------------------------------------- queries
IsDevServerRunning ==
    MapHas(activeProcesses, DevKey) /\ procs[activeProcesses[DevKey].process].exitCode = NullCode

GetDevServerPid ==
    IF MapHas(activeProcesses, DevKey) THEN activeProcesses[DevKey].process ELSE NoPid

\* getEnvironmentInfo(), lines 907-909: a copy of the environment record
GetEnvironmentInfo == environment

IsReady == environment.status = READY

\* faulty variant: the uptime is reported in milliseconds
UptimeMillis(startTime) == now - startTime

\* lines 963 and 968: whole seconds since the entry was registered
Uptime(startTime) == (now - startTime) \div 1000

\* the pid of a child handle: undefined when the child could not be launched
PidOf(p) == IF procs[p].exitCode = SpawnErrorCode THEN NoPid ELSE p

\* the keys of a map as a sequence
RECURSIVE Keys(_)
Keys(S) ==
    IF S = {} THEN <<>>
    ELSE LET k == CHOOSE x \in S : TRUE IN <<k>> \o Keys(S \ {k})

\* getActiveProcesses(), lines 959-973: one record per registry entry
GetActiveProcesses ==
    LET keys == Keys(DOMAIN activeProcesses)
    IN [j \in 1..Len(keys) |->
           [type |-> activeProcesses[keys[j]].type,
            lectureId |-> activeProcesses[keys[j]].lectureId,
            pid |-> PidOf(activeProcesses[keys[j]].process),
            uptime |-> Uptime(activeProcesses[keys[j]].startTime)]]

GetActiveProcessesCall(i) ==
    /\ CanBegin(i)
    /\ ret' = Returned(NewCall("getActiveProcesses", NoConfig), EmptyResult, GetActiveProcesses)
    /\ UNCHANGED <<config, environment, activeProcesses, fs, procs, calls, platform, concurrent, now>>

\* a caller asks isDevServerRunning(): synchronous, the answer is the value
IsDevServerRunningCall(i) ==
    /\ CanBegin(i)
    /\ ret' = Returned(NewCall("isDevServerRunning", NoConfig), EmptyResult, IsDevServerRunning)
    /\ UNCHANGED <<config, environment, activeProcesses, fs, procs, calls, platform, concurrent, now>>

\* a caller asks getDevServerPid(): synchronous, the answer is the processId
GetDevServerPidCall(i) ==
    /\ CanBegin(i)
    /\ ret' = Returned(NewCall("getDevServerPid", NoConfig),
                       [EmptyResult EXCEPT !.processId = GetDevServerPid],
                       GetDevServerPid # NoPid)
    /\ UNCHANGED <<config, environment, activeProcesses, fs, procs, calls, platform, concurrent, now>>

\* --------------------------------------------------------- startDevServer
DefaultPort == 3030
DefaultHost == "localhost"
ResolvePort(port) == IF TruthyNum(port) THEN port ELSE DefaultPort
ResolveHost(host) == IF Truthy(host) THEN host ELSE DefaultHost
Url(host, port) == "http://" \o host \o ":" \o ToString(port)

\* the configurations callers pass: nothing, falsy values, explicit values
DevServerConfigs ==
    {NoConfig, [port |-> 0, host |-> "0.0.0.0"], [port |-> 3456, host |-> "127.0.0.1"]}

\* faulty variant: only a manager that was never touched is rejected
DevServerPreconditionLenient(env) == env.status # NOT_INITIALIZED

\* line 333: the status startDevServer() requires
DevServerPrecondition(env) == env.status = READY

\* calls in flight that have yet to spawn their process
PendingSpawns ==
    {j \in Slots : calls[j].op \in {"startDevServer", "buildLectureWithOutput"}
                   /\ calls[j].pid = NoPid}
PidAvailable == Cardinality(Unused) > Cardinality(PendingSpawns)

\* faulty variant: the catch block reports the error and stops nothing
FailStartKeepsEntry(i, c, ps, message, threw1, threw2) ==
    /\ activeProcesses' = activeProcesses
    /\ procs' = HandOut(ps, c.pid, Err(c.result, message))
    /\ ret' = Returned(c, Err(c.result, message), FALSE)
    /\ calls' = [calls EXCEPT ![i] = IdleCall]

\* the catch block of startDevServer(): the error, then stopDevServer();
\* ps: the processes as the catch block finds them
FailStart(i, c, ps, message, threw1, threw2) ==
    LET stopped == StopDevServerOn(activeProcesses, ps, threw1, threw2)
    IN /\ activeProcesses' = stopped.ap
       /\ procs' = HandOut(stopped.ps, c.pid, Err(c.result, message))
       /\ ret' = Returned(c, Err(c.result, message), FALSE)
       /\ calls' = [calls EXCEPT ![i] = IdleCall]

\* lines 346-409: stop the tracked server, spawn, register, start the wait
\* launched = FALSE: the command cannot be spawned; the child emits 'error',
\* which has no listener here, so the event is thrown as an uncaught exception
SpawnDevServer(ps, p, port, host, launched) ==
    [ps EXCEPT ![p] =
        IF launched
        THEN [NoProc EXCEPT !.state = "running", !.type = "dev", !.port = port, !.host = host]
        ELSE [NoProc EXCEPT !.state = "exited", !.exitCode = SpawnErrorCode, !.type = "dev",
                            !.port = port, !.host = host, !.uncaught = TRUE]]

Register(ap, p) ==
    MapSet(ap, DevKey, [process |-> p, type |-> "dev", lectureId |-> LectureId,
                        startTime |-> now])

\* setInterval (line 452) and clearInterval (lines 457, 473, 494) of the
\* readiness wait for the child p
SetInterval(ps, p) == [ps EXCEPT ![p].polling = TRUE]

\* faulty variant: the interval goes on after the wait has resolved
KeepInterval(ps, p) == ps

ClearInterval(ps, p) == [ps EXCEPT ![p].polling = FALSE]

\* faulty variant: startDevServer() spawns without stopping the tracked server
KeepPrevious(ap, ps, threw1, threw2) == [ap |-> ap, ps |-> ps, value |-> FALSE]

StopPrevious(ap, ps, threw1, threw2) == StopDevServerOn(ap, ps, threw1, threw2)

LaunchDevServer(i, c, threw1, threw2) ==
    LET stopped == StopPrevious(activeProcesses, procs, threw1, threw2)
        port == ResolvePort(c.cfg.port)
        host == ResolveHost(c.cfg.host)
        p == NextPid
    IN /\ \E launched \in BOOLEAN :
             procs' = SetInterval(SpawnDevServer(stopped.ps, p, port, host, launched), p)
       /\ activeProcesses' = Register(stopped.ap, p)
       /\ calls' = [calls EXCEPT ![i] =
              [c EXCEPT !.pc = "wait", !.pid = p,
                        !.result = Msg(@, "Running: npm run dev")]]

StartDevServer(i, cfg) ==
    /\ CanBegin(i)
    /\ LET c == [NewCall("startDevServer", cfg) EXCEPT
                    !.result = Msg(EmptyResult, "Starting dev server for lecture")]
       IN IF ~DevServerPrecondition(environment)
          THEN \E threw1, threw2 \in BOOLEAN :
                  FailStart(i, c, procs, "Environment not ready. Call initialize() first.",
                            threw1, threw2)
          ELSE /\ PidAvailable
               /\ calls' = [calls EXCEPT ![i] = [c EXCEPT !.pc = "start_modules"]]
               /\ UNCHANGED <<activeProcesses, procs>>
               /\ ret' = NoReturn
    /\ UNCHANGED <<config, environment, fs, platform, concurrent, now>>

\* await fs.pathExists(nodeModulesPath)
StartCheckModules(i) ==
    /\ calls[i].pc = "start_modules"
    /\ ~Blocked
    /\ IF ~fs.nodeModules
       THEN /\ environment' = UpdateStatus(environment, INSTALLING, Undefined)
            /\ calls' = [calls EXCEPT ![i] = EnterInstall(
                   [calls[i] EXCEPT !.result = Msg(@, "node_modules not found, installing dependencies...")])]
            /\ UNCHANGED <<activeProcesses, procs>>
       ELSE /\ \E threw1, threw2 \in BOOLEAN : LaunchDevServer(i, calls[i], threw1, threw2)
            /\ UNCHANGED environment
    /\ UNCHANGED <<config, fs, platform, concurrent, now>>
    /\ ret' = NoReturn

\* ----------------------------------------------------- waitForServerStart
\* a TCP connect to host:port succeeds while some process listens there
Reachable(host, port) ==
    \E p \in Pids : procs[p].state = "running" /\ procs[p].listening /\ procs[p].port = port

\* faulty variant: a wait that resolves false is a failure and the server is stopped
FinishStartHardTimeout(i, launched) ==
    LET c == calls[i]
        p == c.pid
        started == Msg(Succeed([c.result EXCEPT
                                   !.url = Url(ResolveHost(c.cfg.host), ResolvePort(c.cfg.port)),
                                   !.processId = p]),
                       "Dev server started")
        ps == ClearInterval(procs, p)
    IN IF ~launched
       THEN \E threw1, threw2 \in BOOLEAN :
               FailStart(i, c, ps, "Dev server did not start", threw1, threw2)
       ELSE /\ ret' = [Returned(c, started, TRUE) EXCEPT !.launched = launched]
            /\ calls' = [calls EXCEPT ![i] = IdleCall]
            /\ procs' = HandOut(ps, p, started)
            /\ UNCHANGED activeProcesses

\* the wait resolves (the interval is cleared on each of its three paths),
\* then lines 411-433: the rest of startDevServer()
FinishStart(i, launched) ==
    LET c == calls[i]
        p == c.pid
        host == ResolveHost(c.cfg.host)
        port == ResolvePort(c.cfg.port)
        started == Msg(Succeed([c.result EXCEPT !.url = Url(host, port), !.processId = p]),
                       "Dev server started")
        ps == ClearInterval(procs, p)
    IN IF ~launched /\ procs[p].exitCode # NullCode /\ procs[p].exitCode # 0
       THEN \E threw1, threw2 \in BOOLEAN :
               FailStart(i, c, ps, "Dev server exited with code " \o ToString(procs[p].exitCode),
                         threw1, threw2)
       ELSE /\ ret' = [Returned(c, started, TRUE) EXCEPT !.launched = launched]
            /\ calls' = [calls EXCEPT ![i] = IdleCall]
            /\ procs' = HandOut(ps, p, started)
            /\ UNCHANGED activeProcesses

\* one firing of the 500 ms interval, lines 452-501
WaitTick(i) ==
    /\ calls[i].pc = "wait"
    /\ procs[calls[i].pid].polling
    /\ ~Blocked
    /\ IF procs[calls[i].pid].exitCode # NullCode
       THEN FinishStart(i, FALSE)
       ELSE IF calls[i].checkCount + 1 >= MaxChecks
       THEN FinishStart(i, FALSE)
       ELSE /\ calls' = [calls EXCEPT ![i].checkCount = @ + 1, ![i].probes = @ + 1]
            /\ UNCHANGED <<activeProcesses, procs>>
            /\ ret' = NoReturn
    /\ UNCHANGED <<config, environment, fs, platform, concurrent, now>>

\* the socket of a probe connects, lines 471-478
ProbeConnect(i) ==
    /\ calls[i].pc = "wait"
    /\ ~Blocked
    /\ calls[i].probes > 0
    /\ Reachable(ResolveHost(calls[i].cfg.host), ResolvePort(calls[i].cfg.port))
    /\ FinishStart(i, TRUE)
    /\ UNCHANGED <<config, environment, fs, platform, concurrent, now>>

\* the socket of a probe times out or fails, lines 480-486
ProbeFail(i) ==
    /\ calls[i].pc = "wait"
    /\ ~Blocked
    /\ calls[i].probes > 0
    /\ calls' = [calls EXCEPT ![i].probes = @ - 1]
    /\ UNCHANGED <<config, environment, activeProcesses, fs, procs, platform, concurrent, now>>
    /\ ret' = NoReturn

\* ------------------------------------------------------------ the builds
\* faulty variant: an empty dist directory is reported as the output
ReportDistIfPresent(r, warn) ==
    IF fs.dist # "absent" THEN [r EXCEPT !.outputPath = DistPath] ELSE r

\* lines 621-638 and 732-741: what the call reports about <lecturePath>/dist
ReportDist(r, warn) ==
    IF fs.dist = "full"
    THEN LET reported == Msg([r EXCEPT !.outputPath = DistPath], "Build output: " \o DistPath)
         IN IF warn THEN Msg(reported, "Output files: index.html") ELSE reported
    ELSE IF ~warn THEN r
    ELSE IF fs.dist = "empty" THEN Msg(r, "Warning: dist directory is empty")
    ELSE Msg(r, "Warning: dist directory not found after build")

\* faulty variant: only a manager that was never touched is rejected
BuildPreconditionLenient(env) == env.status # NOT_INITIALIZED

\* lines 575 and 667: the status both builds require
BuildPrecondition(env) == env.status = READY

BuildBegin(i, op) ==
    /\ CanBegin(i)
    /\ LET c == [NewCall(op, NoConfig) EXCEPT !.result = Msg(EmptyResult, "Building lecture")]
       IN IF ~BuildPrecondition(environment)
          THEN /\ ret' = Returned(c, Err(c.result, "Environment not ready. Call initialize() first."),
                                  FALSE)
               /\ calls' = calls
          ELSE /\ op = "buildLectureWithOutput" => PidAvailable
               /\ calls' = [calls EXCEPT ![i] = [c EXCEPT !.pc = "build_modules"]]
               /\ ret' = NoReturn
    /\ UNCHANGED <<config, environment, activeProcesses, fs, procs, platform, concurrent, now>>

BuildLecture(i) == BuildBegin(i, "buildLecture")

BuildLectureWithOutput(i) == BuildBegin(i, "buildLectureWithOutput")

\* the exit code of the tool, ok: it exited 0; and the text that reports a
\* code (lines 312 and 646)
ToolExitCode(ok) == IF ok THEN 0 ELSE 1
ExitCodeText(code) == "Exit code: " \o ToString(code)

\* line 618: the inner catch throws a new Error, which has no status property
Rethrow(message) == [message |-> "Build failed: " \o message, hasStatus |-> FALSE]

\* lines 640-648: the outer catch adds the exit code when the error has a status
CatchBuild(r, error, code) ==
    IF error.hasStatus THEN Err(Err(r, error.message), ExitCodeText(code))
    ELSE Err(r, error.message)

\* execSync of the build, lines 599-619 and the catch at 640-648
\* outcome: the build exits 0, exits non-zero, or is killed at the timeout
RunBuild(i, c, f, outcome, dist) ==
    IF outcome = "ok"
    THEN /\ fs' = [f EXCEPT !.dist = dist]
         /\ calls' = [calls EXCEPT ![i] =
                [c EXCEPT !.pc = "build_dist", !.ranBuild = TRUE,
                          !.result = Msg(Msg(@, "Running: npm run build"),
                                         "Build completed successfully")]]
         /\ ret' = NoReturn
    ELSE /\ fs' = f
         /\ ret' = Returned([c EXCEPT !.ranBuild = TRUE],
                            CatchBuild(Err(Msg(c.result, "Running: npm run build"),
                                           "Build stderr: ..."),
                                       Rethrow("Command failed: npm run build"),
                                       ToolExitCode(FALSE)),
                            FALSE)
         /\ calls' = [calls EXCEPT ![i] = IdleCall]

\* spawn of the streaming build, lines 692-696
SpawnBuild(i, c) ==
    /\ \E launched \in BOOLEAN :
          procs' = [procs EXCEPT ![NextPid] =
                       IF launched
                       THEN [NoProc EXCEPT !.state = "running", !.type = "build"]
                       ELSE [NoProc EXCEPT !.state = "exited", !.type = "build",
                                           !.exitCode = SpawnErrorCode]]
    /\ calls' = [calls EXCEPT ![i] =
           [c EXCEPT !.pc = "bwo_wait", !.pid = NextPid, !.ranBuild = TRUE,
                     !.result = Msg(@, "Running: npm run build")]]

DistStates == {"absent", "empty", "full"}
BuildOutcomes == {"ok", "fail", "timeout"}

\* await fs.pathExists(nodeModulesPath) of either build
BuildCheckModules(i) ==
    /\ calls[i].pc = "build_modules"
    /\ ~Blocked
    /\ IF ~fs.nodeModules
       THEN /\ environment' = UpdateStatus(environment, INSTALLING, Undefined)
            /\ calls' = [calls EXCEPT ![i] = EnterInstall(
                   [calls[i] EXCEPT !.result = Msg(@, "node_modules not found, installing dependencies...")])]
            /\ UNCHANGED <<fs, procs>>
            /\ ret' = NoReturn
       ELSE /\ environment' = environment
            /\ IF calls[i].op = "buildLecture"
               THEN /\ \E outcome \in BuildOutcomes, dist \in DistStates :
                          RunBuild(i, calls[i], fs, outcome, dist)
                    /\ procs' = procs
               ELSE /\ SpawnBuild(i, calls[i])
                    /\ UNCHANGED <<fs>>
                    /\ ret' = NoReturn
    /\ UNCHANGED <<config, activeProcesses, platform, concurrent, now>>

\* await fs.pathExists(distPath) and readdir, lines 624-638
BuildProbeDist(i) ==
    /\ calls[i].pc = "build_dist"
    /\ ~Blocked
    /\ ret' = Returned(calls[i], Succeed(ReportDist(calls[i].result, TRUE)), TRUE)
    /\ calls' = [calls EXCEPT ![i] = IdleCall]
    /\ UNCHANGED <<config, environment, activeProcesses, fs, procs, platform, concurrent, now>>

\* faulty variant: the close handler does not look at the resolved flag
OnCloseIgnoresResolved(r, resolved, code) ==
    IF code = 0
    THEN ReportDist(Succeed(Msg(r, "Build completed successfully")), FALSE)
    ELSE [Err(r, "Build exited with code " \o
                    (IF code = NullCode THEN "null" ELSE ToString(code)))
          EXCEPT !.success = FALSE]

\* the 'close' handler of the streaming build, lines 720-744, on the result
\* object r; resolved: the promise has been resolved before
OnClose(r, resolved, code) ==
    IF resolved THEN r
    ELSE IF code = 0
    THEN ReportDist(Succeed(Msg(r, "Build completed successfully")), FALSE)
    ELSE [Err(r, "Build exited with code " \o
                    (IF code = NullCode THEN "null" ELSE ToString(code)))
          EXCEPT !.success = FALSE]

\* the 'close' event arrives first: the promise resolves with the result, which
\* the handlers keep a reference to
BuildClose(i) ==
    /\ calls[i].pc = "bwo_wait"
    /\ ~Blocked
    /\ procs[calls[i].pid].state = "exited"
    /\ procs[calls[i].pid].exitCode # SpawnErrorCode
    /\ LET p == calls[i].pid
           r == OnClose(calls[i].result, procs[p].handedOut, procs[p].exitCode)
       IN /\ ret' = Returned(calls[i], r, r.success)
          /\ procs' = [HandOut(procs, p, r) EXCEPT ![p].closed = TRUE]
    /\ calls' = [calls EXCEPT ![i] = IdleCall]
    /\ UNCHANGED <<config, environment, activeProcesses, fs, platform, concurrent, now>>

\* the 'close' event arrives after the promise was resolved by the watchdog or
\* by the 'error' handler
BuildCloseLate(p) ==
    /\ ~Blocked
    /\ procs[p].type = "build" /\ procs[p].state = "exited"
    /\ procs[p].handedOut /\ ~procs[p].closed
    /\ procs' = [procs EXCEPT ![p].closed = TRUE,
                              ![p].result = OnClose(@, procs[p].handedOut, procs[p].exitCode)]
    /\ UNCHANGED <<config, environment, activeProcesses, fs, calls, platform, concurrent, now>>
    /\ ret' = NoReturn

\* faulty variant: a build that cannot be launched puts the environment in Error
BuildSpawnErrorSetsStatus(i) ==
    /\ calls[i].pc = "bwo_wait"
    /\ ~Blocked
    /\ procs[calls[i].pid].exitCode = SpawnErrorCode
    /\ LET r == Err(calls[i].result, "Process error: spawn npm ENOENT")
       IN /\ ret' = Returned(calls[i], r, FALSE)
          /\ procs' = HandOut(procs, calls[i].pid, r)
          /\ environment' = UpdateStatus(environment, ERROR, "Process error: spawn npm ENOENT")
    /\ calls' = [calls EXCEPT ![i] = IdleCall]
    /\ UNCHANGED <<config, activeProcesses, fs, platform, concurrent, now>>

\* the 'error' event of the streaming build, lines 746-752: the spawn failed
BuildSpawnError(i) ==
    /\ calls[i].pc = "bwo_wait"
    /\ ~Blocked
    /\ procs[calls[i].pid].exitCode = SpawnErrorCode
    /\ LET r == Err(calls[i].result, "Process error: spawn npm ENOENT")
       IN /\ ret' = Returned(calls[i], r, FALSE)
          /\ procs' = HandOut(procs, calls[i].pid, r)
    /\ calls' = [calls EXCEPT ![i] = IdleCall]
    /\ UNCHANGED <<config, environment, activeProcesses, fs, platform, concurrent, now>>

\* the watchdog of the streaming build, lines 755-763
BuildTimeout(i) ==
    /\ calls[i].pc = "bwo_wait"
    /\ ~Blocked
    /\ procs[calls[i].pid].exitCode # SpawnErrorCode
    /\ LET p == calls[i].pid
           delivered == procs[p].state = "running"
           r == Err(calls[i].result, "Build timeout (5 minutes)")
       IN /\ procs' = HandOut([procs EXCEPT ![p].termAttempted = TRUE, ![p].killed = delivered,
                                            ![p].signalled = @ \/ delivered], p, r)
          /\ ret' = Returned(calls[i], r, FALSE)
    /\ calls' = [calls EXCEPT ![i] = IdleCall]
    /\ UNCHANGED <<config, environment, activeProcesses, fs, platform, concurrent, now>>

\* ---------------------------------------------------- installDependencies
InstallDependencies(i) ==
    /\ CanBegin(i)
    /\ environment' = UpdateStatus(environment, INSTALLING, Undefined)
    /\ calls' = [calls EXCEPT ![i] = EnterInstall(NewCall("installDependencies", NoConfig))]
    /\ UNCHANGED <<config, activeProcesses, fs, procs, platform, concurrent, now>>
    /\ ret' = NoReturn

ManifestMissing == fs.pkg.kind = "none"

PackageManagerError == "stderr: ..., Package manager failed: Command failed: npm install"

\* lines 226-252: what installDependencies() returns; ok: the tool exited 0
InstallResult(r, ok) ==
    IF ManifestMissing
    THEN Err(r, "package.json not found. Call initialize() first.")
    ELSE IF ok
    THEN Msg(Succeed([Msg(Msg(Msg(r, "Using package manager: npm"), "Running: npm install"),
                          "Dependencies installed successfully")
                      EXCEPT !.installedPackages = <<Core, Client>>]),
             "Dependencies installed successfully")
    ELSE Err(r, "Installation failed: " \o PackageManagerError)

\* faulty variant: a failed install reports the error and leaves the status alone
InstallStatusStuckOnFailure(r) ==
    IF r.success THEN UpdateStatus(environment, READY, Undefined) ELSE environment

\* faulty variant: a failed install leaves the status Ready
InstallStatusIgnoresFailure(r) == UpdateStatus(environment, READY, Undefined)

\* faulty variant: a finished install leaves the status at Installing
InstallStatusStaysInstalling(r) == environment

InstallStatus(r) ==
    IF r.success THEN UpdateStatus(environment, READY, Undefined)
    ELSE UpdateStatus(environment, ERROR, r.errors[Len(r.errors)])

\* faulty variant: setup() returns the result of initialize() whatever the install did
SetupResultIgnoresInstall(initResult, installResult) ==
    [initResult EXCEPT !.messages = @ \o installResult.messages]

\* setup(), lines 931-945: the result built from the two results
SetupResult(initResult, installResult) ==
    IF installResult.success
    THEN [initResult EXCEPT !.messages = @ \o installResult.messages, !.errors = <<>>]
    ELSE [initResult EXCEPT !.success = FALSE, !.errors = installResult.errors]

\* the package manager does not exit: execSync (lines 799-804) has no timeout
\* and never returns; the status stays at Installing
InstallHangs(i) ==
    /\ calls' = [calls EXCEPT ![i].pc = "inst_hung", ![i].ranInstall = TRUE]
    /\ ret' = NoReturn
    /\ UNCHANGED <<environment, fs, activeProcesses, procs>>

\* await fs.pathExists(packageJsonPath), runPackageManager (execSync), and the
\* code of the caller that follows without another wait
InstallCheck(i) ==
    /\ calls[i].pc = "inst_check"
    /\ ~Blocked
    /\ \/ ~ManifestMissing /\ InstallHangs(i)
       \/ \E ok \in BOOLEAN, created \in BOOLEAN :
            LET inst == InstallResult(calls[i].inst, ok)
                c == [calls[i] EXCEPT !.inst = inst, !.ranInstall = @ \/ ~ManifestMissing]
                f == IF inst.success /\ created THEN [fs EXCEPT !.nodeModules = TRUE] ELSE fs
                failed == Err(c.result, "Failed to install dependencies: " \o Join(inst.errors))
            IN /\ ManifestMissing => ~ok /\ ~created
               /\ ~ok => ~created
               /\ created => fs.writable
               /\ environment' = InstallStatus(inst)
               /\ CASE c.op = "installDependencies" ->
                         /\ ret' = Returned(c, inst, inst.success)
                         /\ calls' = [calls EXCEPT ![i] = IdleCall]
                         /\ fs' = f
                         /\ UNCHANGED <<activeProcesses, procs>>
                    [] c.op = "setup" ->
                         /\ ret' = Returned(c, SetupResult(c.result, inst), inst.success)
                         /\ calls' = [calls EXCEPT ![i] = IdleCall]
                         /\ fs' = f
                         /\ UNCHANGED <<activeProcesses, procs>>
                    [] c.op = "startDevServer" ->
                         /\ fs' = f
                         /\ \E threw1, threw2 \in BOOLEAN :
                              IF inst.success
                              THEN LaunchDevServer(i, c, threw1, threw2) /\ ret' = NoReturn
                              ELSE FailStart(i, c, procs, failed.errors[Len(failed.errors)],
                                             threw1, threw2)
                    [] c.op = "buildLecture" ->
                         /\ UNCHANGED <<activeProcesses, procs>>
                         /\ IF inst.success
                            THEN \E outcome \in BuildOutcomes, dist \in DistStates :
                                    RunBuild(i, c, f, outcome, dist)
                            ELSE /\ ret' = Returned(c, failed, FALSE)
                                 /\ calls' = [calls EXCEPT ![i] = IdleCall]
                                 /\ fs' = f
                    [] c.op = "buildLectureWithOutput" ->
                         /\ fs' = f
                         /\ activeProcesses' = activeProcesses
                         /\ IF inst.success
                            THEN SpawnBuild(i, c) /\ ret' = NoReturn
                            ELSE /\ ret' = Returned(c, failed, FALSE)
                                 /\ calls' = [calls EXCEPT ![i] = IdleCall]
                                 /\ procs' = procs
    /\ UNCHANGED <<config, platform, concurrent, now>>

\* installDependenciesSync(silent), lines 262-317: no wait inside, one step
InstallSyncResult(ok, silent) ==
    LET r == Msg(EmptyResult, "Using package manager: npm")
        running == IF silent THEN r ELSE Msg(r, "Running: npm install --prefer-offline")
    IN IF ok
       THEN Succeed([Msg(running, "Dependencies installed successfully")
                     EXCEPT !.installedPackages = <<Core, Client>>])
       ELSE Err(Err(running, "Command failed: npm install --prefer-offline"),
                ExitCodeText(ToolExitCode(ok)))

InstallDependenciesSync(i, silent) ==
    /\ CanBegin(i)
    /\ fs.dir
    /\ \E ok \in BOOLEAN, created \in BOOLEAN :
         LET r == InstallSyncResult(ok, silent)
             c == [NewCall("installDependenciesSync", NoConfig) EXCEPT !.ranInstall = TRUE]
         IN /\ ~ok => ~created
            /\ created => fs.writable
            /\ environment' = IF ok THEN UpdateStatus(environment, READY, Undefined)
                              ELSE UpdateStatus(environment, ERROR, r.errors[1])
            /\ fs' = IF created THEN [fs EXCEPT !.nodeModules = TRUE] ELSE fs
            /\ ret' = Returned(c, r, ok)
    /\ UNCHANGED <<config, activeProcesses, procs, calls, platform, concurrent, now>>

\* ------------------------------------------------------------ environment
\* a dev server starts to accept connections on its port
ProcListen(p) ==
    /\ procs[p].state = "running" /\ procs[p].type = "dev" /\ ~procs[p].listening
    /\ ~Reachable(procs[p].host, procs[p].port)
    /\ procs' = [procs EXCEPT ![p].listening = TRUE]
    /\ UNCHANGED <<config, environment, activeProcesses, fs, calls, platform, concurrent, now>>
    /\ ret' = NoReturn

\* a dev server writes a chunk to stdout or stderr: the handlers of lines
\* 396-406 push it into the result of the call that spawned the server
Waiting(p) == {i \in Slots : calls[i].pc = "wait" /\ calls[i].pid = p}

Push(r, stream) == IF stream = "stderr" THEN Err(r, "chunk") ELSE Msg(r, "chunk")

ProcOutput(p, stream) ==
    /\ ~Blocked
    /\ procs[p].state = "running" /\ procs[p].type = "dev"
    /\ procs[p].chunks < MaxOutput
    /\ IF procs[p].handedOut
       THEN /\ procs' = [procs EXCEPT ![p].chunks = @ + 1, ![p].result = Push(@, stream)]
            /\ calls' = calls
       ELSE /\ procs' = [procs EXCEPT ![p].chunks = @ + 1]
            /\ calls' = [i \in Slots |->
                   IF i \in Waiting(p) THEN [calls[i] EXCEPT !.result = Push(@, stream)]
                   ELSE calls[i]]
    /\ UNCHANGED <<config, environment, activeProcesses, fs, platform, concurrent, now>>
    /\ ret' = NoReturn

\* a process exits on its own with an exit code; a build has written dist
ProcExit(p, code, dist) ==
    /\ procs[p].state = "running"
    /\ procs' = [procs EXCEPT ![p].state = "exited", ![p].exitCode = code,
                              ![p].listening = FALSE]
    /\ fs' = IF procs[p].type = "build" /\ code = 0 THEN [fs EXCEPT !.dist = dist] ELSE fs
    /\ procs[p].type = "dev" => dist = fs.dist
    /\ UNCHANGED <<config, environment, activeProcesses, calls, platform, concurrent, now>>
    /\ ret' = NoReturn

\* a process that was sent a termination request dies of it: by the signal
\* (exitCode stays null) or, under taskkill, with exit code 1
ProcDie(p) ==
    /\ procs[p].state = "running" /\ procs[p].signalled
    /\ procs' = [procs EXCEPT ![p].state = "exited", ![p].listening = FALSE,
                              ![p].signalCode = platform # "win32",
                              ![p].exitCode = IF platform = "win32" THEN 1 ELSE NullCode]
    /\ UNCHANGED <<config, environment, activeProcesses, fs, calls, platform, concurrent, now>>
    /\ ret' = NoReturn

\* a process is killed by a signal sent from outside the manager (the user,
\* the system): the handle reports exitCode null and a signalCode
ProcKilled(p) ==
    /\ procs[p].state = "running" /\ platform # "win32"
    /\ procs' = [procs EXCEPT ![p].state = "exited", ![p].listening = FALSE,
                              ![p].signalCode = TRUE, ![p].exitCode = NullCode]
    /\ UNCHANGED <<config, environment, activeProcesses, fs, calls, platform, concurrent, now>>
    /\ ret' = NoReturn

\* half a second passes; the clock read by Date.now() is taken not to go back
TickMillis == 500

Tick ==
    /\ now < MaxTicks * TickMillis
    /\ now' = now + TickMillis
    /\ ret' = NoReturn
    /\ UNCHANGED <<config, environment, activeProcesses, fs, procs, calls, platform, concurrent>>

\* between calls the user changes the lecture directory
RemoveLecture ==
    /\ AllIdle /\ fs.dir
    /\ fs' = [dir |-> FALSE, slides |-> FALSE, pkg |-> NoFile, nodeModules |-> FALSE,
              dist |-> "absent", writable |-> TRUE]
    /\ UNCHANGED <<config, environment, activeProcesses, procs, calls, platform, concurrent, now>>
    /\ ret' = NoReturn

RemoveSlides ==
    /\ AllIdle /\ fs.slides
    /\ fs' = [fs EXCEPT !.slides = FALSE]
    /\ UNCHANGED <<config, environment, activeProcesses, procs, calls, platform, concurrent, now>>
    /\ ret' = NoReturn

RestoreLecture ==
    /\ AllIdle /\ ~fs.slides
    /\ fs' = [fs EXCEPT !.dir = TRUE, !.slides = TRUE]
    /\ UNCHANGED <<config, environment, activeProcesses, procs, calls, platform, concurrent, now>>
    /\ ret' = NoReturn

\* the callers of the environment specifications start a dev server or a
\* streaming build only when the status check of the call rejects it
StartNotReady(i, cfg) == environment.status # READY /\ StartDevServer(i, cfg)

BuildWithOutputNotReady(i) == environment.status # READY /\ BuildLectureWithOutput(i)

BuildNotReady(i) == environment.status # READY /\ BuildLecture(i)

\* --------------------------------------------------------- specifications
\* the environment state machine: initialize, install, setup, buffered build
NextEnv ==
    \/ \E i \in Slots : Initialize(i)
    \/ \E i \in Slots : Setup(i)
    \/ \E i \in Slots : InitCheckDirectory(i)
    \/ \E i \in Slots : InitCheckSlides(i)
    \/ \E i \in Slots : InitReadPackageJson(i)
    \/ \E i \in Slots : InitWritePackageJson(i)
    \/ \E i \in Slots : InstallDependencies(i)
    \/ \E i \in Slots : InstallCheck(i)
    \/ \E i \in Slots, silent \in BOOLEAN : InstallDependenciesSync(i, silent)
    \/ \E i \in Slots, cfg \in DevServerConfigs : StartNotReady(i, cfg)
    \/ \E i \in Slots : BuildWithOutputNotReady(i)
    \/ \E i \in Slots : BuildLecture(i)
    \/ \E i \in Slots : BuildCheckModules(i)
    \/ \E i \in Slots : BuildProbeDist(i)
    \/ RemoveLecture
    \/ RemoveSlides
    \/ RestoreLecture

\* calls issued one at a time
Init == InitEnv /\ concurrent = FALSE /\ now = 0

Spec == Init /\ [][NextEnv]_vars

\* calls issued while earlier ones await, on a lecture directory left alone
NextConc ==
    \/ \E i \in Slots : Initialize(i)
    \/ \E i \in Slots : InitCheckDirectory(i)
    \/ \E i \in Slots : InitCheckSlides(i)
    \/ \E i \in Slots : InitReadPackageJson(i)
    \/ \E i \in Slots : InitWritePackageJson(i)
    \/ \E i \in Slots : InstallDependencies(i)
    \/ \E i \in Slots : InstallCheck(i)
    \/ \E i \in Slots, cfg \in DevServerConfigs : StartNotReady(i, cfg)
    \/ \E i \in Slots : BuildWithOutputNotReady(i)
    \/ \E i \in Slots : BuildNotReady(i)

InitConc == InitEnv /\ concurrent = TRUE /\ now = 0

SpecConc == InitConc /\ [][NextConc]_vars

\* the dev server of a lecture whose initialize() has succeeded
InitializedFs ==
    {[dir |-> TRUE, slides |-> TRUE, nodeModules |-> n, dist |-> "absent", writable |-> TRUE,
      pkg |-> BuildPackageJson(ParsedPackageJson(NoFile), DefaultVersion)] : n \in BOOLEAN}

InitDev ==
    /\ config = [slidevVersion |-> NoVersion]
    /\ environment = [status |-> READY, error |-> Undefined,
                      slidevVersion |-> StripVersion(DefaultVersion)]
    /\ activeProcesses = EmptyMap
    /\ procs = [p \in Pids |-> NoProc]
    /\ calls = [i \in Slots |-> IdleCall]
    /\ ret = NoReturn
    /\ fs \in InitializedFs
    /\ platform \in {"linux", "win32"}
    /\ concurrent = FALSE
    /\ now = 0

NextDev ==
    \/ \E i \in Slots, cfg \in DevServerConfigs : StartDevServer(i, cfg)
    \/ \E i \in Slots : StartCheckModules(i)
    \/ \E i \in Slots : InstallCheck(i)
    \/ \E i \in Slots : WaitTick(i)
    \/ \E i \in Slots : ProbeConnect(i)
    \/ \E i \in Slots : ProbeFail(i)
    \/ \E i \in Slots : StopDevServer(i)
    \/ \E i \in Slots : StopAllProcesses(i)
    \/ \E i \in Slots, silent \in BOOLEAN : InstallDependenciesSync(i, silent)
    \/ \E p \in Pids : ProcListen(p)
    \/ \E p \in Pids, code \in {0, 1}, dist \in DistStates : ProcExit(p, code, dist)
    \/ \E p \in Pids : ProcDie(p)

SpecDev == InitDev /\ [][NextDev]_vars

\* initialize() over the manifests a lecture directory may hold
\* a dev server that writes to its output
InitOutput ==
    /\ config = [slidevVersion |-> NoVersion]
    /\ environment = [status |-> READY, error |-> Undefined,
                      slidevVersion |-> StripVersion(DefaultVersion)]
    /\ activeProcesses = EmptyMap
    /\ procs = [p \in Pids |-> NoProc]
    /\ calls = [i \in Slots |-> IdleCall]
    /\ ret = NoReturn
    /\ fs \in {f \in InitializedFs : f.nodeModules}
    /\ platform = "linux"
    /\ concurrent = FALSE
    /\ now = 0

NextOutput ==
    \/ \E i \in Slots, cfg \in DevServerConfigs : StartDevServer(i, cfg)
    \/ \E i \in Slots : StartCheckModules(i)
    \/ \E i \in Slots : WaitTick(i)
    \/ \E i \in Slots : ProbeConnect(i)
    \/ \E i \in Slots : ProbeFail(i)
    \/ \E i \in Slots : StopDevServer(i)
    \/ \E p \in Pids : ProcListen(p)
    \/ \E p \in Pids, code \in {0, 1}, dist \in DistStates : ProcExit(p, code, dist)
    \/ \E p \in Pids, stream \in {"stdout", "stderr"} : ProcOutput(p, stream)

SpecOutput == InitOutput /\ [][NextOutput]_vars

\* the queries on a dev server that may exit or be killed
NextQuery ==
    \/ \E i \in Slots, cfg \in DevServerConfigs : StartDevServer(i, cfg)
    \/ \E i \in Slots : StartCheckModules(i)
    \/ \E i \in Slots : WaitTick(i)
    \/ \E i \in Slots : ProbeConnect(i)
    \/ \E i \in Slots : ProbeFail(i)
    \/ \E i \in Slots : StopDevServer(i)
    \/ \E i \in Slots : IsDevServerRunningCall(i)
    \/ \E i \in Slots : GetDevServerPidCall(i)
    \/ \E p \in Pids : ProcListen(p)
    \/ \E p \in Pids, code \in {0, 1}, dist \in DistStates : ProcExit(p, code, dist)
    \/ \E p \in Pids : ProcKilled(p)

SpecQuery == InitOutput /\ [][NextQuery]_vars

\* the registry while dev servers and streaming builds run and time passes
InitRegistry ==
    /\ config = [slidevVersion |-> NoVersion]
    /\ environment = [status |-> READY, error |-> Undefined,
                      slidevVersion |-> StripVersion(DefaultVersion)]
    /\ activeProcesses = EmptyMap
    /\ procs = [p \in Pids |-> NoProc]
    /\ calls = [i \in Slots |-> IdleCall]
    /\ ret = NoReturn
    /\ fs \in {f \in InitializedFs : f.nodeModules}
    /\ platform = "linux"
    /\ concurrent = TRUE
    /\ now = 0

NextRegistry ==
    \/ \E i \in Slots : StartDevServer(i, NoConfig)
    \/ \E i \in Slots : StartCheckModules(i)
    \/ \E i \in Slots : WaitTick(i)
    \/ \E i \in Slots : ProbeConnect(i)
    \/ \E i \in Slots : ProbeFail(i)
    \/ \E i \in Slots : StopDevServer(i)
    \/ \E i \in Slots : BuildLectureWithOutput(i)
    \/ \E i \in Slots : BuildCheckModules(i)
    \/ \E i \in Slots : BuildClose(i)
    \/ \E i \in Slots : BuildSpawnError(i)
    \/ \E i \in Slots : BuildTimeout(i)
    \/ \E i \in Slots : GetActiveProcessesCall(i)
    \/ \E p \in Pids : ProcListen(p)
    \/ \E p \in Pids : ProcExit(p, 0, "full")
    \/ Tick

SpecRegistry == InitRegistry /\ [][NextRegistry]_vars

\* the two builds of an initialized lecture, one call at a time
InitBuild ==
    /\ config = [slidevVersion |-> NoVersion]
    /\ environment = [status |-> READY, error |-> Undefined,
                      slidevVersion |-> StripVersion(DefaultVersion)]
    /\ activeProcesses = EmptyMap
    /\ procs = [p \in Pids |-> NoProc]
    /\ calls = [i \in Slots |-> IdleCall]
    /\ ret = NoReturn
    /\ fs \in InitializedFs
    /\ platform = "linux"
    /\ concurrent = FALSE
    /\ now = 0

NextBuild ==
    \/ \E i \in Slots : BuildLecture(i)
    \/ \E i \in Slots : BuildLectureWithOutput(i)
    \/ \E i \in Slots : BuildCheckModules(i)
    \/ \E i \in Slots : InstallCheck(i)
    \/ \E i \in Slots : BuildProbeDist(i)
    \/ \E i \in Slots : BuildClose(i)
    \/ \E i \in Slots : BuildSpawnError(i)
    \/ \E i \in Slots : BuildTimeout(i)
    \/ \E p \in Pids : BuildCloseLate(p)
    \/ \E i \in Slots : StopAllProcesses(i)
    \/ \E p \in Pids, code \in {0, 1}, dist \in DistStates : ProcExit(p, code, dist)
    \/ \E p \in Pids : ProcDie(p)

SpecBuild == InitBuild /\ [][NextBuild]_vars

\* the streaming build with calls issued while it is in flight
InitBuildConc ==
    /\ config = [slidevVersion |-> NoVersion]
    /\ environment = [status |-> READY, error |-> Undefined,
                      slidevVersion |-> StripVersion(DefaultVersion)]
    /\ activeProcesses = EmptyMap
    /\ procs = [p \in Pids |-> NoProc]
    /\ calls = [i \in Slots |-> IdleCall]
    /\ ret = NoReturn
    /\ fs \in {f \in InitializedFs : f.nodeModules}
    /\ platform = "linux"
    /\ concurrent = TRUE
    /\ now = 0

NextBuildConc ==
    \/ \E i \in Slots : BuildLectureWithOutput(i)
    \/ \E i \in Slots : BuildCheckModules(i)
    \/ \E i \in Slots : BuildClose(i)
    \/ \E i \in Slots : BuildSpawnError(i)
    \/ \E i \in Slots : BuildTimeout(i)
    \/ \E p \in Pids : BuildCloseLate(p)
    \/ \E i \in Slots : StopAllProcesses(i)
    \/ \E p \in Pids, code \in {0, 1}, dist \in DistStates : ProcExit(p, code, dist)
    \/ \E p \in Pids : ProcDie(p)

SpecBuildConc == InitBuildConc /\ [][NextBuildConc]_vars

\* the operations that install the dependencies when node_modules is missing
NextAutoInstall ==
    \/ \E i \in Slots : StartDevServer(i, NoConfig)
    \/ \E i \in Slots : StartCheckModules(i)
    \/ \E i \in Slots : WaitTick(i)
    \/ \E i \in Slots : ProbeConnect(i)
    \/ \E i \in Slots : ProbeFail(i)
    \/ \E i \in Slots : BuildLecture(i)
    \/ \E i \in Slots : BuildLectureWithOutput(i)
    \/ \E i \in Slots : BuildCheckModules(i)
    \/ \E i \in Slots : BuildProbeDist(i)
    \/ \E i \in Slots : BuildClose(i)
    \/ \E i \in Slots : BuildSpawnError(i)
    \/ \E i \in Slots : BuildTimeout(i)
    \/ \E i \in Slots : InstallCheck(i)
    \/ \E p \in Pids : ProcListen(p)
    \/ \E p \in Pids, code \in {0, 1} : ProcExit(p, code, "full")

SpecAutoInstall == InitBuild /\ [][NextAutoInstall]_vars

\* installDependencies() and the buffered build under the scheduling of Node:
\* a continuation that is ready to run is run, a call need not be issued
NextInstall ==
    \/ \E i \in Slots : InstallDependencies(i)
    \/ \E i \in Slots : InstallCheck(i)
    \/ \E i \in Slots : BuildLecture(i)
    \/ \E i \in Slots : BuildCheckModules(i)
    \/ \E i \in Slots : BuildProbeDist(i)

FairInstall ==
    /\ WF_vars(\E i \in Slots : InstallCheck(i))
    /\ WF_vars(\E i \in Slots : BuildCheckModules(i))
    /\ WF_vars(\E i \in Slots : BuildProbeDist(i))

SpecInstall == InitBuild /\ [][NextInstall]_vars /\ FairInstall

BoundedManifests == {m \in Manifests : Size(m) <= MaxEntries}

InitManifest ==
    /\ InitManager
    /\ config \in {[slidevVersion |-> v] : v \in {NoVersion} \cup Versions}
    /\ fs \in {[dir |-> TRUE, slides |-> TRUE, pkg |-> m, nodeModules |-> FALSE,
                dist |-> "absent", writable |-> TRUE] : m \in {NoFile, Garbage} \cup BoundedManifests}
    /\ platform = "linux"
    /\ concurrent = FALSE
    /\ now = 0

NextManifest ==
    \/ \E i \in Slots : Initialize(i)
    \/ \E i \in Slots : InitCheckDirectory(i)
    \/ \E i \in Slots : InitCheckSlides(i)
    \/ \E i \in Slots : InitReadPackageJson(i)
    \/ \E i \in Slots : InitWritePackageJson(i)

SpecManifest == InitManifest /\ [][NextManifest]_vars

\* the dev server with calls issued while a start awaits: a second start, or
\* a stop, interleaved with the readiness wait
InitDevConc ==
    /\ config = [slidevVersion |-> NoVersion]
    /\ environment = [status |-> READY, error |-> Undefined,
                      slidevVersion |-> StripVersion(DefaultVersion)]
    /\ activeProcesses = EmptyMap
    /\ procs = [p \in Pids |-> NoProc]
    /\ calls = [i \in Slots |-> IdleCall]
    /\ ret = NoReturn
    /\ fs \in {f \in InitializedFs : f.nodeModules}
    /\ platform \in {"linux", "win32"}
    /\ concurrent = TRUE
    /\ now = 0

NextDevConc ==
    \/ \E i \in Slots, cfg \in DevServerConfigs : StartDevServer(i, cfg)
    \/ \E i \in Slots : StartCheckModules(i)
    \/ \E i \in Slots : WaitTick(i)
    \/ \E i \in Slots : ProbeConnect(i)
    \/ \E i \in Slots : ProbeFail(i)
    \/ \E i \in Slots : StopDevServer(i)
    \/ \E p \in Pids : ProcListen(p)
    \/ \E p \in Pids, code \in {0, 1}, dist \in DistStates : ProcExit(p, code, dist)
    \/ \E p \in Pids : ProcDie(p)

SpecDevConc == InitDevConc /\ [][NextDevConc]_vars

\* the readiness wait under the scheduling of Node: an interval that is set
\* fires again
FairWait == \A i \in Slots : WF_vars(WaitTick(i))

SpecWait == InitDevConc /\ [][NextDevConc]_vars /\ FairWait

\* ------------------------------------------------------------- properties
Failed(r) == ~r.success /\ Len(r.errors) > 0
Tracked(p) == MapHas(activeProcesses, DevKey) /\ activeProcesses[DevKey].process = p

StartIssued ==
    \/ ret'.op = "startDevServer"
    \/ \E i \in Slots : calls[i].op = "none" /\ calls'[i].op = "startDevServer"



\* C1: startDevServer issued while the status is not Ready (NotInitialized,
\* Initializing, Installing, Error) returns at once with success = false and a
\* non-empty errors list, no url and no processId, spawns no process and adds
\* nothing to the registry.
C1_StartNotReadyFails ==
    [][(environment.status # READY /\ StartIssued) =>
          /\ ret'.op = "startDevServer"
          /\ Failed(ret'.result)
          /\ ret'.result.url = Undefined /\ ret'.result.processId = NoPid
          /\ \A p \in Pids : procs[p].state = "unused" => procs'[p].state = "unused"
          /\ DOMAIN activeProcesses' \subseteq DOMAIN activeProcesses
          /\ calls' = calls]_vars

C1_Witness ==
    /\ ret.op = "startDevServer" /\ ret.pre.status = INSTALLING
    /\ Failed(ret.result) /\ activeProcesses = EmptyMap

BuildIssued ==
    \/ ret'.op \in Builds
    \/ \E i \in Slots : calls[i].op = "none" /\ calls'[i].op \in Builds

\* C2: buildLecture and buildLectureWithOutput issued while the status is not
\* Ready return success = false with a non-empty errors list and no
\* outputPath, and run neither the package manager nor the build.
C2_BuildNotReadyFails ==
    [][(environment.status # READY /\ BuildIssued) =>
          /\ ret'.op \in Builds
          /\ Failed(ret'.result)
          /\ ret'.result.outputPath = Undefined
          /\ ~ret'.ranInstall /\ ~ret'.ranBuild
          /\ UNCHANGED <<environment, fs, procs, activeProcesses, calls>>]_vars

C2_Witness ==
    /\ ret.op = "buildLectureWithOutput" /\ ret.pre.status = NOT_INITIALIZED
    /\ Failed(ret.result) /\ ~ret.ranBuild

\* C3: on a manager whose initialize() was never called (the status is still
\* NotInitialized), installDependencies() fails with a non-empty errors list
\* and runs no package manager, whatever the lecture directory holds.
C3_InstallNeverInitializedFails ==
    (ret.op = "installDependencies" /\ ret.pre.status = NOT_INITIALIZED) =>
        Failed(ret.result) /\ ~ret.ranInstall

\* C4: installDependencies() that fails on its precondition (no manifest, the
\* package manager not run) leaves status and error as they were before the call.
C4_FailedPreconditionKeepsState ==
    (ret.op = "installDependencies" /\ ~ret.result.success /\ ~ret.ranInstall) =>
        environment.status = ret.pre.status /\ environment.error = ret.pre.error

\* C5: initialize() on a lecture path that is missing, or that holds no
\* slides.md, returns success = false with a non-empty errors list, leaves the
\* status Error and the manifest as it was, whatever the status was before.
C5_InitializeMissingFails ==
    (ret.op = "initialize" /\ (~fs.dir \/ ~fs.slides)) =>
        /\ Failed(ret.result)
        /\ environment.status = ERROR
        /\ fs.pkg = ret.pre.pkg

C5_Witness ==
    /\ ret.op = "initialize" /\ fs.dir /\ ~fs.slides
    /\ ret.pre.status = READY /\ environment.status = ERROR

DeclaredCore(m) ==
    IF m.kind = "json" /\ TruthyVer(Get(m.dependencies, Core)) THEN m.dependencies[Core]
    ELSE IF m.kind = "json" /\ TruthyVer(Get(m.devDependencies, Core)) THEN m.devDependencies[Core]
    ELSE NoVersion

ExpectedVersion(m) ==
    IF TruthyVer(config.slidevVersion) THEN config.slidevVersion
    ELSE IF DeclaredCore(m) # NoVersion THEN DeclaredCore(m)
    ELSE DefaultVersion

\* C6: after a successful initialize() the status is Ready and the manifest on
\* disk has devDependencies[@slidev/core] = dependencies[@slidev/client] = V:
\* the configured version if one is set, else the version the manifest declared
\* for @slidev/core (dependencies before devDependencies), else ^0.49.0.
C6_ManifestPinsVersion ==
    (ret.op = "initialize" /\ ret.result.success) =>
        /\ environment.status = READY
        /\ fs.pkg.kind = "json"
        /\ Get(fs.pkg.devDependencies, Core) = ExpectedVersion(ret.pre.pkg)
        /\ Get(fs.pkg.dependencies, Client) = ExpectedVersion(ret.pre.pkg)

C6_Witness ==
    /\ ret.op = "initialize" /\ ret.result.success
    /\ TruthyVer(config.slidevVersion)
    /\ DeclaredCore(ret.pre.pkg) \notin {NoVersion, config.slidevVersion}
    /\ Get(fs.pkg.devDependencies, Core) = config.slidevVersion

ToolPackages == {Core, Client, ThemeDefault}

Kept(before, after) ==
    \A k \in DOMAIN before \ ToolPackages : k \in DOMAIN after /\ after[k] = before[k]

\* C7: initialize() keeps every entry of dependencies and devDependencies of an
\* existing manifest, other than the three slidev packages, in its section
\* with its value.
C7_OtherDependenciesKept ==
    (ret.op = "initialize" /\ ret.result.success /\ ret.pre.pkg.kind = "json") =>
        /\ Kept(ret.pre.pkg.dependencies, fs.pkg.dependencies)
        /\ Kept(ret.pre.pkg.devDependencies, fs.pkg.devDependencies)

C7_Witness ==
    /\ ret.op = "initialize" /\ ret.result.success
    /\ Foo \in DOMAIN ret.pre.pkg.dependencies /\ Foo \in DOMAIN ret.pre.pkg.devDependencies
    /\ Foo \in DOMAIN fs.pkg.dependencies

\* C8: with calls issued one after another the registry holds at most one dev
\* server, and a dev server that is no longer the tracked one has been sent a
\* termination request: a new one is spawned only after the previous one was
\* stopped and removed.
C8_OneDevServer ==
    /\ Cardinality({k \in DOMAIN activeProcesses : activeProcesses[k].type = "dev"}) <= 1
    /\ \A p \in Pids :
          (procs[p].type = "dev" /\ ~Tracked(p)) => procs[p].termAttempted

C8_Witness ==
    /\ ret.op = "startDevServer" /\ ret.result.success
    /\ \E p, q \in Pids :
          /\ p # q /\ Tracked(p) /\ procs[p].state = "running"
          /\ procs[q].type = "dev" /\ procs[q].termAttempted /\ ~Tracked(q)

\* C9: stopDevServer() with nothing tracked returns false and changes nothing;
\* with an entry tracked it returns true and removes the entry, also when the
\* process has exited or the termination calls throw, so that afterwards
\* isDevServerRunning() is false and getDevServerPid() is undefined.
C9_StopDevServer ==
    [][ret'.op = "stopDevServer" =>
          IF MapHas(activeProcesses, DevKey)
          THEN /\ ret'.value = TRUE
               /\ ~MapHas(activeProcesses', DevKey)
               /\ ~IsDevServerRunning'
               /\ GetDevServerPid' = NoPid
          ELSE /\ ret'.value = FALSE
               /\ UNCHANGED <<activeProcesses, procs, environment, fs, calls>>]_vars

C9_Witness ==
    /\ ret.op = "stopDevServer" /\ ret.value
    /\ MapHas(ret.pre.activeProcesses, DevKey)
    /\ procs[ret.pre.activeProcesses[DevKey].process].state = "exited"
    /\ ~IsDevServerRunning

\* C10: a successful startDevServer({port: P, host: H}) reports the url
\* "http://H:P" and has spawned the server with that port and host, for every
\* number P and string H the caller passes.
C10_UrlIsHostAndPort ==
    (/\ ret.op = "startDevServer" /\ ret.result.success
     /\ ret.cfg.port # NoPort /\ ret.cfg.host # Undefined) =>
        /\ ret.result.url = Url(ret.cfg.host, ret.cfg.port)
        /\ procs[ret.result.processId].port = ret.cfg.port
        /\ procs[ret.result.processId].host = ret.cfg.host

Has(seq, x) == \E k \in 1..Len(seq) : seq[k] = x
InitializeSucceeded(r) == Has(r.messages, "Environment initialized successfully")
InstallSucceeded(r) == Has(r.messages, "Dependencies installed successfully")
ManifestWritten == fs.pkg.kind = "json" /\ TruthyVer(Get(fs.pkg.devDependencies, Core))

\* C11: setup() runs the install only after a successful initialize() and
\* returns success = true exactly when both succeeded, the status then being
\* Ready; a failed initialize() runs no install; a failed install gives
\* success = false with the install errors, status Error, and the manifest
\* that initialize() wrote still on disk.
C11_SetupShortCircuits ==
    ret.op = "setup" =>
        /\ ret.ranInstall <=> InitializeSucceeded(ret.result)
        /\ ret.result.success <=>
              (InitializeSucceeded(ret.result) /\ InstallSucceeded(ret.result))
        /\ ret.result.success => environment.status = READY /\ ret.result.errors = <<>>
        /\ ~ret.result.success => Failed(ret.result) /\ environment.status = ERROR
        /\ (ret.ranInstall /\ ~ret.result.success) =>
              /\ ret.result.errors = <<"Installation failed: " \o PackageManagerError>>
              /\ ManifestWritten

C11_Witness ==
    /\ ret.op = "setup" /\ ret.ranInstall /\ ~ret.result.success
    /\ ret.pre.pkg.kind = "none" /\ ManifestWritten
    /\ environment.status = ERROR

StatusEdges ==
    {<<NOT_INITIALIZED, INITIALIZING>>, <<INITIALIZING, READY>>, <<READY, INSTALLING>>,
     <<INSTALLING, READY>>, <<ERROR, INITIALIZING>>}
        \cup {<<x, ERROR>> : x \in EnvironmentStatus \ {ERROR}}

\* C12: every change of the environment status is an edge of the state
\* machine: NotInitialized -> Initializing, Initializing -> Ready,
\* Ready -> Installing, Installing -> Ready, X -> Error for X other than Error,
\* Error -> Initializing.
C12_StatusEdgesOnly ==
    [][environment'.status # environment.status =>
          <<environment.status, environment'.status>> \in StatusEdges]_vars

BuildCompleted(r) == Has(r.messages, "Build completed successfully")

\* C13: for both builds, a build whose process exited with code 0 returns
\* success = true whether or not dist exists; outputPath is set exactly when
\* <lecturePath>/dist exists and is not empty, and is then that path; a build
\* that fails reports no outputPath.
C13_BuildReportsDist ==
    ret.op \in Builds =>
        /\ ret.result.success <=> BuildCompleted(ret.result)
        /\ ret.result.success =>
              ret.result.outputPath = (IF fs.dist = "full" THEN DistPath ELSE Undefined)
        /\ ~ret.result.success => ret.result.outputPath = Undefined

C13_Witness ==
    /\ ret.op = "buildLectureWithOutput" /\ ret.result.success
    /\ fs.dist = "empty" /\ ret.result.outputPath = Undefined

\* C14: a successful build leaves the status Ready and the registry as it
\* was, and a build run right after a successful build of the same kind, on
\* the same dist contents, succeeds with the same outputPath.
C14_BuildIdempotent ==
    (ret.op \in Builds /\ ret.result.success) =>
        /\ environment.status = READY
        /\ activeProcesses = ret.pre.activeProcesses
        /\ (ret.pre.lastBuild = ret.op /\ ret.pre.dist = fs.dist) =>
              ret.result.outputPath = ret.pre.lastOutputPath

C14_Witness ==
    /\ ret.op = "buildLecture" /\ ret.result.success
    /\ ret.pre.lastBuild = "buildLecture"
    /\ ret.pre.dist = "full" /\ fs.dist = "full"
    /\ ret.result.outputPath = DistPath /\ ret.pre.lastOutputPath = DistPath

\* C15 as stated: from every status, initialize() on a lecture directory that
\* exists and contains slides.md returns success = true with status Ready.
C15_InitializeRecovers ==
    (ret.op = "initialize" /\ fs.dir /\ fs.slides) =>
        ret.result.success /\ environment.status = READY

\* C15: from every status, Error included, initialize() on a lecture
\* directory that exists, contains slides.md and lets package.json be written
\* returns success = true with status Ready.
C15_InitializeRecoversWritable ==
    (ret.op = "initialize" /\ fs.dir /\ fs.slides /\ fs.writable) =>
        ret.result.success /\ environment.status = READY

C15_Witness ==
    /\ ret.op = "initialize" /\ ret.pre.status = ERROR
    /\ fs.dir /\ fs.slides /\ fs.writable
    /\ ret.result.success /\ environment.status = READY

\* C16: a result that an operation has returned is never changed afterwards,
\* neither by later operations nor by later output of a running process.
C16_ResultsImmutable ==
    [][\A p \in Pids : procs[p].handedOut => procs'[p].result = procs[p].result]_vars

\* C17: every public operation ends by returning a result; no error escapes
\* the operation, also when the external process cannot be launched.
C17_NoErrorEscapes ==
    \A p \in Pids : ~procs[p].uncaught

\* C18: when stopAllProcesses() returns, every process this manager started
\* that is still running has been sent a termination request, the dev server
\* and a streaming build alike, and isDevServerRunning() is false.
C18_StopAllStopsEverything ==
    ret.op = "stopAllProcesses" =>
        /\ ~IsDevServerRunning
        /\ \A p \in Pids : procs[p].state = "running" => procs[p].termAttempted

LeavesWait(i) == calls[i].pc = "wait" /\ calls'[i].pc # "wait"
WaitHost(i) == ResolveHost(calls[i].cfg.host)
WaitPort(i) == ResolvePort(calls[i].cfg.port)

\* C19: when the wait for the server times out while the process is alive and
\* its port cannot be reached, startDevServer returns success = true with url
\* and processId, sends the process no termination request and leaves it
\* tracked in the registry.
C19_TimeoutIsSoftSuccess ==
    [][\A i \in Slots :
          (/\ LeavesWait(i)
           /\ procs[calls[i].pid].state = "running"
           /\ ~Reachable(WaitHost(i), WaitPort(i))) =>
              /\ ret'.op = "startDevServer" /\ ret'.result.success
              /\ ret'.result.url = Url(WaitHost(i), WaitPort(i))
              /\ ret'.result.processId = calls[i].pid
              /\ procs'[calls[i].pid].termAttempted = procs[calls[i].pid].termAttempted
              /\ procs'[calls[i].pid].state = "running"
              /\ MapHas(activeProcesses', DevKey)
              /\ activeProcesses'[DevKey].process = calls[i].pid]_vars

C19_Witness ==
    /\ ret.op = "startDevServer" /\ ret.result.success
    /\ ret.result.processId = 1 /\ Tracked(1)
    /\ procs[1].state = "running" /\ ~procs[1].listening /\ ~procs[1].termAttempted
    /\ \A q \in Pids \ {1} : procs[q].state = "unused"

\* C20: a start whose wait sees the process exited with a non-zero code
\* before the port was reached returns success = false with errors and no
\* url, and no dev server is tracked afterwards; every other outcome of the
\* wait (port reached, timeout, exit with code 0) returns success = true with
\* url and processId.
C20_FailsOnlyOnNonZeroExit ==
    [][\A i \in Slots :
          LeavesWait(i) =>
             LET p == calls[i].pid
                 nonZero == procs[p].exitCode \notin {NullCode, 0}
                 connects == calls[i].probes > 0 /\ Reachable(WaitHost(i), WaitPort(i))
             IN /\ ret'.op = "startDevServer"
                /\ ~nonZero => ret'.result.success
                /\ (nonZero /\ ~connects) => ~ret'.result.success
                /\ ret'.result.success =>
                      /\ ret'.result.url = Url(WaitHost(i), WaitPort(i))
                      /\ ret'.result.processId = p
                /\ ~ret'.result.success =>
                      /\ nonZero /\ Failed(ret'.result)
                      /\ ret'.result.url = Undefined
                      /\ ~MapHas(activeProcesses', DevKey)]_vars

C20_Witness ==
    /\ ret.op = "startDevServer" /\ Failed(ret.result)
    /\ ret.pre.status = READY /\ ret.result.url = Undefined
    /\ \E p \in Pids : procs[p].type = "dev" /\ procs[p].exitCode = 1
    /\ ~MapHas(activeProcesses, DevKey)

\* C21: a call of installDependencies() or of the buffered buildLecture()
\* eventually returns, whatever the package manager or the build tool does
\* (the process is terminated when the timeout expires)
C21_TimeoutBounded ==
    \A i \in Slots :
        (calls[i].op \in {"installDependencies", "buildLecture"}) ~> (calls[i].op = "none")

Queries == {"isDevServerRunning", "getDevServerPid"}

\* C22: isDevServerRunning() and getDevServerPid() change neither the registry
\* nor the environment, and isDevServerRunning() answers true only when a dev
\* server is tracked and its process has not terminated, by an exit or a signal
C22_RunningQueryIsExact ==
    [][ret'.op \in Queries =>
          /\ activeProcesses' = activeProcesses
          /\ environment' = environment
          /\ (ret'.op = "isDevServerRunning" /\ ret'.value) =>
                 /\ MapHas(activeProcesses, DevKey)
                 /\ procs[activeProcesses[DevKey].process].state = "running"]_vars

\* the error texts of the manager that carry the exit code of a process
CarriesExitCode(text, code) ==
    text \in {ExitCodeText(code), "Build exited with code " \o ToString(code),
              "Dev server exited with code " \o ToString(code)}

ReportsExitCode(r, code) == \E k \in 1..Len(r.errors) : CarriesExitCode(r.errors[k], code)

\* C23: the status is Installing while installDependencies() runs the package
\* manager; when the tool exits 0 the call returns success with status Ready
\* and installedPackages = [@slidev/core, @slidev/client]; when it exits with
\* another code the call returns a failure with status Error and errors that
\* include the exit code
C23_InstallReportsOutcome ==
    /\ \A i \in Slots :
          (calls[i].op = "installDependencies" /\ calls[i].pc \in {"inst_check", "inst_hung"})
             => environment.status = INSTALLING
    /\ (ret.op = "installDependencies" /\ ret.ranInstall) =>
          IF ret.result.success
          THEN environment.status = READY /\ ret.result.installedPackages = <<Core, Client>>
          ELSE /\ environment.status = ERROR
               /\ ReportsExitCode(ret.result, ToolExitCode(FALSE))

\* C24: when the build process of the buffered buildLecture() exits with a
\* non-zero code, the call returns a failure whose errors contain the exit
\* code together with the captured error text
C24_BuildFailureReportsExitCode ==
    (ret.op = "buildLecture" /\ ret.ranBuild /\ ~ret.result.success) =>
        /\ Has(ret.result.errors, "Build stderr: ...")
        /\ ReportsExitCode(ret.result, ToolExitCode(FALSE))

\* C25: after a successful initialize() the manifest on disk has no
\* @slidev/theme-default entry, in dependencies or in devDependencies
C25_ThemeDefaultRemoved ==
    (ret.op = "initialize" /\ ret.result.success) =>
        /\ ThemeDefault \notin DOMAIN fs.pkg.dependencies
        /\ ThemeDefault \notin DOMAIN fs.pkg.devDependencies

\* the manifest built from an empty base: the two tool packages and nothing else
Recreated(version) ==
    Json([p \in {Client} |-> version], [p \in {Core} |-> version])

\* C26: a package.json that cannot be parsed does not abort initialize(): the
\* call fails only when slides.md is missing or package.json cannot be
\* written; otherwise the manifest is recreated from an empty base with the
\* tool packages and the call returns success with no errors and status Ready
C26_UnparsableManifestRecreated ==
    (ret.op = "initialize" /\ ret.pre.pkg = Garbage) =>
        /\ ret.result.success <=> (fs.slides /\ fs.writable)
        /\ ret.result.success =>
              /\ ret.result.errors = <<>>
              /\ environment.status = READY
              /\ fs.pkg = Recreated(OrVer(config.slidevVersion, DefaultVersion))

C26_Witness ==
    /\ ret.op = "initialize" /\ ret.pre.pkg = Garbage
    /\ ret.result.success /\ ret.result.errors = <<>>
    /\ fs.pkg.kind = "json" /\ DOMAIN fs.pkg.devDependencies = {Core}

\* C27: buildLectureWithOutput() resolves once, with the outcome of the first
\* of close, error and watchdog: it returns success only if the process
\* closed with exit code 0 and the watchdog had not fired; when the watchdog
\* fires first it requests the termination of the process and the call
\* returns a failure; no later event changes the outcome that was returned
C27_ResolvesOnceWithFirstOutcome ==
    [][/\ \A i \in Slots :
             (calls[i].pc = "bwo_wait" /\ calls'[i].pc # "bwo_wait") =>
                 LET p == calls[i].pid
                 IN /\ ~procs[p].handedOut /\ procs'[p].handedOut
                    /\ procs'[p].result = ret'.result
                    /\ ret'.result.success =>
                          /\ procs[p].state = "exited" /\ procs[p].exitCode = 0
                          /\ ~procs'[p].termAttempted
                    /\ (procs'[p].termAttempted /\ ~procs[p].termAttempted) =>
                          /\ ~ret'.result.success
                          /\ Has(ret'.result.errors, "Build timeout (5 minutes)")
       /\ \A p \in Pids :
             (procs[p].type = "build" /\ procs[p].handedOut) =>
                 /\ procs'[p].handedOut
                 /\ procs'[p].result.success = procs[p].result.success
                 /\ procs'[p].result.outputPath = procs[p].result.outputPath]_vars

C27_Witness ==
    \E p \in Pids :
        /\ procs[p].type = "build" /\ procs[p].termAttempted
        /\ procs[p].exitCode = 0 /\ procs[p].closed
        /\ procs[p].handedOut /\ ~procs[p].result.success

Warned(r) ==
    \/ Has(r.messages, "Warning: dist directory is empty")
    \/ Has(r.messages, "Warning: dist directory not found after build")

\* C28: for both builds, a build that succeeds while <lecturePath>/dist is
\* absent or empty returns success with no outputPath and with a warning in
\* its messages
C28_EmptyOutputWarns ==
    (ret.op \in Builds /\ ret.result.success /\ fs.dist # "full") =>
        /\ ret.result.outputPath = Undefined
        /\ Warned(ret.result)

\* C29: the registry holds only dev-server entries of this lecture, never a
\* build process, and getActiveProcesses() returns one record {type,
\* lectureId, pid, uptime} per entry, with uptime the whole seconds since the
\* entry was registered and not negative, and leaves the registry as it was
C29_RegistryListsDevServers ==
    /\ \A k \in DOMAIN activeProcesses :
          /\ k = DevKey
          /\ activeProcesses[k].type = "dev"
          /\ activeProcesses[k].lectureId = LectureId
          /\ procs[activeProcesses[k].process].type = "dev"
    /\ ret.op = "getActiveProcesses" =>
          /\ activeProcesses = ret.pre.activeProcesses
          /\ Len(ret.value) = Cardinality(DOMAIN activeProcesses)
          /\ \A k \in DOMAIN activeProcesses :
                \E j \in 1..Len(ret.value) :
                    /\ ret.value[j].type = activeProcesses[k].type
                    /\ ret.value[j].lectureId = activeProcesses[k].lectureId
                    /\ ret.value[j].pid = PidOf(activeProcesses[k].process)
                    /\ ret.value[j].uptime >= 0
                    /\ ret.value[j].uptime * 1000 <= now - activeProcesses[k].startTime
                    /\ now - activeProcesses[k].startTime < (ret.value[j].uptime + 1) * 1000

C29_Witness ==
    /\ ret.op = "getActiveProcesses" /\ Len(ret.value) = 1
    /\ ret.value[1].uptime = 1
    /\ now - activeProcesses[DevKey].startTime = 1500
    /\ \E p \in Pids : procs[p].type = "build"

AutoInstallOps == {"startDevServer", "buildLecture", "buildLectureWithOutput"}

InstallErrors ==
    {"Failed to install dependencies: Installation failed: " \o PackageManagerError,
     "Failed to install dependencies: package.json not found. Call initialize() first."}

\* C30: with status Ready and node_modules missing, startDevServer() and both
\* builds run installDependencies() before anything else; when the install
\* fails the operation returns a failure that carries the install error,
\* spawns no process and leaves the status Error; when it succeeds the
\* operation goes on with status Ready (an install that never ends leaves the
\* operation waiting)
C30_InstallsWhenModulesMissing ==
    [][\A i \in Slots :
          calls[i].op \in AutoInstallOps =>
              /\ (calls[i].pc \in {"start_modules", "build_modules"} /\ calls'[i] # calls[i]) =>
                    IF fs.nodeModules
                    THEN calls'[i].pc # "inst_check" /\ environment' = environment
                    ELSE /\ calls'[i].pc = "inst_check"
                         /\ environment'.status = INSTALLING
                         /\ procs' = procs
              /\ (calls[i].pc = "inst_check" /\ calls'[i].pc # "inst_check") =>
                    \/ calls'[i].pc = "inst_hung" /\ procs' = procs
                    \/ /\ environment'.status = ERROR
                       /\ calls'[i].op = "none"
                       /\ ret'.op = calls[i].op /\ ~ret'.result.success
                       /\ \E e \in InstallErrors : Has(ret'.result.errors, e)
                       /\ \A p \in Pids : procs'[p].state = "unused" <=> procs[p].state = "unused"
                    \/ /\ environment'.status = READY
                       /\ \/ calls'[i].pc \in {"wait", "bwo_wait", "build_dist"}
                          \/ ret'.op = "buildLecture" /\ ret'.ranBuild]_vars

C30_Witness ==
    /\ ret.op = "startDevServer" /\ ret.ranInstall /\ ~ret.result.success
    /\ ret.pre.status = READY /\ environment.status = ERROR
    /\ \A p \in Pids : procs[p].state = "unused"
    /\ ~fs.nodeModules

\* the step calls updateStatus(ERROR, ...): the status becomes Error, or the
\* one-step installDependenciesSync() fails on a status that was Error before
TransitionToError ==
    /\ environment'.status = ERROR
    /\ environment.status # ERROR \/ ret'.op = "installDependenciesSync"

\* the errors of a result carry the message, as it is or behind the prefix of
\* the operation that ran the install on its own
CarriesMessage(r, message) ==
    \/ Has(r.errors, message)
    \/ Has(r.errors, "Failed to install dependencies: " \o message)

\* C31: every transition of the status to Error stores the message of the
\* failure that caused it (the one the failing call reports in its errors) in
\* environment.error, whatever message an earlier failure had left there
C31_ErrorRecordsCause ==
    [][TransitionToError =>
          /\ ret'.op # "none" /\ ~ret'.result.success
          /\ Truthy(environment'.error)
          /\ CarriesMessage(ret'.result, environment'.error)]_vars

C31_Witness ==
    /\ ret.op = "installDependencies" /\ environment.status = ERROR
    /\ Truthy(ret.pre.error) /\ ret.pre.error # environment.error
    /\ Has(ret.result.errors, environment.error)

\* C36: the error field is present only while the status is Error: after an
\* initialize() or installDependencies() that brought the status back to
\* Ready, getEnvironmentInfo() reports no error message
C36_ErrorOnlyWhileError ==
    /\ GetEnvironmentInfo.status # ERROR => GetEnvironmentInfo.error = Undefined
    /\ (ret.op \in {"initialize", "installDependencies"} /\ ret.result.success) =>
          GetEnvironmentInfo.status = READY /\ GetEnvironmentInfo.error = Undefined

SettledStatus == {NOT_INITIALIZED, READY, ERROR}

\* C35: with calls issued one at a time, whenever every issued call has
\* returned the status is NotInitialized, Ready or Error: no completed
\* operation, whatever its outcome, leaves Initializing or Installing behind
C35_NoTransientStatusLeft ==
    (~concurrent /\ AllIdle) => environment.status \in SettledStatus

C35_Witness ==
    /\ AllIdle /\ ret.op = "installDependencies" /\ ret.ranInstall
    /\ ~ret.result.success /\ ret.pre.status = READY
    /\ environment.status = ERROR

\* the call in slot i takes a step of a build that found node_modules in place
BuildStepWithModules(i) ==
    /\ calls[i].op \in Builds /\ calls'[i] # calls[i]
    /\ ~calls[i].ranInstall /\ calls[i].pc # "inst_check"
    /\ calls[i].pc = "build_modules" => fs.nodeModules

\* the step ends the build in a failure: the buffered build threw (non-zero
\* exit or timeout), the streaming build closed with a code other than 0,
\* could not be launched, or its watchdog fired
BuildFails(i) ==
    \/ calls[i].pc = "build_modules"
    \/ /\ calls[i].pc = "bwo_wait"
       /\ \/ procs[calls[i].pid].exitCode # 0
          \/ procs'[calls[i].pid].termAttempted # procs[calls[i].pid].termAttempted

\* C37: a build of either kind that starts with status Ready and node_modules
\* in place changes neither the environment nor the registry, whatever its
\* outcome: a non-zero exit code, a launch error or a timeout gives
\* success = false and the status is still Ready
C37_BuildLeavesStatus ==
    [][\A i \in Slots :
          BuildStepWithModules(i) =>
              /\ environment.status = READY
              /\ environment' = environment
              /\ activeProcesses' = activeProcesses
              /\ calls'[i].op = "none" =>
                    /\ ret'.op = calls[i].op /\ ret'.ranBuild
                    /\ BuildFails(i) => ~ret'.result.success]_vars

C37_Witness ==
    /\ ret.op = "buildLectureWithOutput" /\ ret.ranBuild /\ ~ret.ranInstall
    /\ Has(ret.result.errors, "Process error: spawn npm ENOENT")
    /\ ~ret.result.success /\ environment.status = READY

\* the call in slot i is an initialize() that returns in this step after an
\* earlier initialize() had succeeded; under SpecManifest the status is Ready
\* only then, and nothing but initialize() touches the lecture directory
SecondInitializeReturns(i) ==
    /\ calls[i].op = "initialize" /\ calls[i].pc = "init_write"
    /\ calls'[i].op = "none"
    /\ calls[i].pre.status = READY

\* C38: initialize() is idempotent on the manifest: for every manifest found
\* (or none) and every configured version (or none), a second initialize()
\* with nothing changed in between writes the manifest the first one wrote,
\* reports the same slidevVersion and ends with status Ready
C38_InitializeIdempotent ==
    [][\A i \in Slots :
          SecondInitializeReturns(i) =>
              /\ ret'.op = "initialize" /\ ret'.result.success
              /\ fs.pkg = calls[i].pre.pkg
              /\ fs'.pkg = fs.pkg
              /\ environment'.slidevVersion = environment.slidevVersion
              /\ environment'.status = READY]_vars

C38_Witness ==
    /\ ret.op = "initialize" /\ ret.result.success /\ ret.pre.status = READY
    /\ config.slidevVersion = NoVersion
    /\ fs.pkg = ret.pre.pkg
    /\ Get(fs.pkg.dependencies, Core) = <<"~", "0.48.0">>
    /\ Get(fs.pkg.devDependencies, Core) = <<"~", "0.48.0">>
    /\ environment.slidevVersion = <<"0.48.0">>

\* C32: whenever startDevServer returns success = true, at the moment of
\* return the registry tracks a dev server whose pid is the returned
\* processId, for calls issued one after another and also when a
\* stopDevServer() is interleaved with the readiness wait of the start
C32_SuccessMeansTracked ==
    (ret.op = "startDevServer" /\ ret.result.success) =>
        /\ MapHas(activeProcesses, DevKey)
        /\ PidOf(activeProcesses[DevKey].process) = ret.result.processId

\* C33: in every interleaving of startDevServer calls on one manager, a dev
\* server that was spawned and has not been sent a termination request is the
\* one the registry tracks: no live server is left untracked
C33_NoUntrackedServer ==
    \A p \in Pids :
        (procs[p].type = "dev" /\ ~procs[p].termAttempted) =>
            /\ MapHas(activeProcesses, DevKey)
            /\ activeProcesses[DevKey].process = p

C33_Witness ==
    \E i, j \in Slots :
        /\ i # j /\ calls[i].pc = "wait" /\ calls[j].pc = "wait"
        /\ procs[calls[i].pid].state = "running" /\ procs[calls[i].pid].termAttempted
        /\ ~Tracked(calls[i].pid)
        /\ procs[calls[j].pid].state = "running" /\ ~procs[calls[j].pid].termAttempted
        /\ Tracked(calls[j].pid)

\* the step is a startDevServer call that fails before it spawns anything:
\* on the status check, or on the install it ran because node_modules is missing
StartFailsBeforeSpawn ==
    /\ ret'.op = "startDevServer" /\ ~ret'.result.success
    /\ \A p \in Pids : procs[p].state = "unused" <=> procs'[p].state = "unused"
    /\ \A i \in Slots : calls[i].pc # "wait" \/ calls'[i].pc = "wait"

\* C34: a startDevServer call that fails before spawning anything (status not
\* Ready, or the install it ran failed) neither terminates nor untracks the
\* dev server that an earlier successful startDevServer left running
C34_FailedStartKeepsServer ==
    [][StartFailsBeforeSpawn =>
          /\ activeProcesses' = activeProcesses
          /\ \A p \in Pids :
                /\ procs'[p].termAttempted = procs[p].termAttempted
                /\ procs'[p].signalled = procs[p].signalled]_vars

WaitingOn(p) == \E i \in Slots : calls[i].pc = "wait" /\ calls[i].pid = p

\* while the wait is pending its interval is set and fewer than timeout/500
\* ticks have fired; once it has resolved the interval is cleared
WaitTimerInvariant ==
    \A p \in Pids :
        /\ procs[p].polling <=> WaitingOn(p)
        /\ \A i \in Slots :
              (calls[i].pc = "wait" /\ calls[i].pid = p) => calls[i].checkCount < MaxChecks

\* a step of the wait: it resolves once, with true only on a probe that
\* connects while the wait is pending, and probes are started only by a tick
\* of an interval that is set
WaitStep ==
    \A i \in Slots :
        /\ LeavesWait(i) =>
              /\ ret'.op = "startDevServer"
              /\ calls'[i].op = "none"
              /\ ~procs'[calls[i].pid].polling
              /\ ret'.launched =>
                    /\ calls[i].probes > 0
                    /\ Reachable(WaitHost(i), WaitPort(i))
                    /\ calls[i].checkCount < MaxChecks
        /\ calls'[i].probes > calls[i].probes =>
              /\ calls[i].pc = "wait" /\ calls'[i].pc = "wait"
              /\ procs[calls[i].pid].polling
              /\ procs[calls[i].pid].exitCode = NullCode
              /\ calls'[i].checkCount = calls[i].checkCount + 1

\* C39: the readiness wait always terminates: it resolves once, after at most
\* timeout/500 ticks of its interval, with true only if a probe connected to
\* host:port before a tick saw the process exited and before the last tick;
\* once it has resolved the interval is cleared and no probe is started
C39_WaitTerminates ==
    /\ []WaitTimerInvariant
    /\ [][WaitStep]_vars
    /\ \A p \in Pids : procs[p].polling ~> ~procs[p].polling

C39_Witness ==
    /\ ret.op = "startDevServer" /\ ret.launched /\ ret.result.success
    /\ ~procs[ret.result.processId].polling
    /\ procs[ret.result.processId].listening

====
